---- MODULE Spec2Model ----
(***************************************************************************)
(* Model of the research orchestration pipeline of web-agent:             *)
(*   - run_research_v3 (src/main_agent.py), the staged orchestrator       *)
(*   - provider_collect / ddg_collect / tavily_collect                    *)
(*     (src/modules/providers.py), the search-provider gateway            *)
(*   - crawl_site (src/modules/crawler.py), the same-site crawler         *)
(*   - discover_seed_url (src/main_agent.py), the seed discovery          *)
(*   - get_llm_response / verify_official_site                            *)
(*     (src/modules/llm_services.py), the LLM call and the verification   *)
(*   - fetch_evidence (src/main_agent.py) and                             *)
(*     summarize_and_extract_insights (src/modules/llm_services.py)       *)
(*   - create_competitor_profile (src/main_agent.py)                      *)
(* Each subsystem has its own specification over its own group of         *)
(* variables; the other groups stay at their initial values.              *)
(***************************************************************************)
EXTENDS Integers, Sequences, FiniteSets, TLC

VARIABLES
    \* ---- run_research_v3 ----
    seed_url,          \* parameter seed_url (rebound at main_agent.py:336)
    keywords,          \* parameter keywords
    competitor_list,   \* parameter competitor_list
    pc,                \* position of the call inside run_research_v3
    report,            \* the local dict `report`
    brand_hint,        \* the local `brand_hint`, Unbound until line 338 ran
    found,             \* what discover_seed_url did at line 335
    names,             \* the local `names` of the competitor stage
    acc,               \* profiles built so far by the comprehension at 392
    events,            \* the progress events emitted so far, in order
    stagelog,          \* the stages entered so far, in order
    caught,            \* the stages whose except block has run
    written,           \* the reports written to <outdir>/report.json
    returned,          \* the value returned by the call (NoValue before)
    \* ---- provider_collect ----
    p_pref,            \* parameter preferred_provider
    p_qs,              \* parameter qs (0 stands for a query that sanitizes to "")
    p_thr,             \* parameter min_keep_threshold
    p_mode,            \* the provider call that is running or ran last
    p_env,             \* the environment variables that are set and non-empty
    p_pc,              \* position of the call inside provider_collect
    p_i,               \* index of the next query of the running provider loop
    p_items,           \* items / all_results of the running provider call
    p_seen,            \* seen / seen_urls of the running provider call
    p_primary,         \* primary_results
    p_events,          \* progress events emitted by the call
    p_calls,           \* provider network calls issued, in order
    p_result,          \* the list returned (NoValue before the return)
    \* ---- crawl_site ----
    c_seed,            \* parameter seed_url, as passed
    c_max,             \* parameter max_pages
    c_base,            \* the local `base`
    c_queue,           \* the local `queue`
    c_seen,            \* the local `seen`
    c_pages,           \* the local `pages`
    c_events,          \* progress events emitted by the call
    c_fetched,         \* the URLs handed to fetch(), in order
    c_pc,              \* position of the call inside crawl_site
    c_result,          \* the list returned (NoValue before the return)
    \* ---- discover_seed_url ----
    d_metas,           \* the local `metas`
    d_sorted,          \* the local `sorted_metas`
    d_k,               \* index of the next candidate of the loop at line 176
    d_fetched,         \* the candidates handed to fetch_evidence, in order
    d_checked,         \* the candidates handed to verify_official_site, in order
    d_events,          \* progress events emitted by the call
    d_pc,              \* position of the call inside discover_seed_url
    d_result,          \* the value returned (NoValue before the return)
    \* ---- get_llm_response, verify_official_site ----
    l_caller,          \* the function that calls get_llm_response
    l_use,             \* the module constant USE_LLM
    l_json,            \* parameter is_json
    l_max,             \* parameter max_retries
    l_delay,           \* parameter retry_delay
    l_script,          \* what the model does on each call, in order
    l_attempt,         \* the loop variable `attempt`
    l_calls,           \* calls of model.generate_content made so far
    l_sleeps,          \* the delays slept so far, in order
    l_pc,              \* position of the call
    l_resp,            \* the value get_llm_response returned
    l_verdict,         \* the value verify_official_site returned
    \* ---- fetch_evidence, summarize_and_extract_insights ----
    e_use,             \* the module constant USE_LLM
    e_web,             \* per meta: the meta and what fetch/extract_text do on it
    e_docs,            \* docs: the records fetch_evidence returned, in order
    e_llm,             \* calls of get_llm_response made so far
    e_pc,              \* position of the call
    e_result,          \* the value summarize_and_extract_insights returned
    \* ---- create_competitor_profile ----
    k_site,            \* what the site stage (discover, crawl, profile) does
    k_aware,           \* what get_market_awareness does
    k_image,           \* what get_consumer_image's analysis does
    k_profile,         \* the local `profile_data`
    k_events,          \* progress events emitted by the call
    k_pc,              \* position of the call
    k_result,          \* the profile returned (NoValue before the return)
    \* ---- analyze_price_range and the pages it is given ----
    a_mode,            \* "direct": called on given pages; "crawled": on crawl_site's
    a_web,             \* the price mentions of each web page
    a_pages,           \* the argument `pages`
    a_pc,              \* position of the call
    a_result           \* the value returned (NoValue before the return)

pipelineVars == <<seed_url, keywords, competitor_list, pc, report, brand_hint,
                  found, names, acc, events, stagelog, caught, written, returned>>
providerVars == <<p_pref, p_qs, p_thr, p_mode, p_env, p_pc, p_i, p_items, p_seen,
                  p_primary, p_events, p_calls, p_result>>
crawlVars == <<c_seed, c_max, c_base, c_queue, c_seen, c_pages, c_events, c_fetched,
               c_pc, c_result>>
discoverVars == <<d_metas, d_sorted, d_k, d_fetched, d_checked, d_events, d_pc,
                  d_result>>
llmVars == <<l_caller, l_use, l_json, l_max, l_delay, l_script, l_attempt, l_calls, l_sleeps,
             l_pc, l_resp, l_verdict>>
evidenceVars == <<e_use, e_web, e_docs, e_llm, e_pc, e_result>>
competitorVars == <<k_site, k_aware, k_image, k_profile, k_events, k_pc, k_result>>
priceVars == <<a_mode, a_web, a_pages, a_pc, a_result>>
vars == <<pipelineVars, providerVars, crawlVars, discoverVars, llmVars, evidenceVars,
          competitorVars, priceVars>>

\* what an operation of one subsystem leaves alone
outsidePipeline == <<providerVars, crawlVars, discoverVars, llmVars, evidenceVars,
                     competitorVars, priceVars>>
outsideProvider == <<pipelineVars, crawlVars, discoverVars, llmVars, evidenceVars,
                     competitorVars, priceVars>>
outsideCrawl == <<pipelineVars, providerVars, discoverVars, llmVars, evidenceVars,
                  competitorVars, priceVars>>
outsideDiscover == <<pipelineVars, providerVars, crawlVars, llmVars, evidenceVars,
                     competitorVars, priceVars>>
outsideLlm == <<pipelineVars, providerVars, crawlVars, discoverVars, evidenceVars,
                competitorVars, priceVars>>
outsideEvidence == <<pipelineVars, providerVars, crawlVars, discoverVars, llmVars,
                     competitorVars, priceVars>>
outsideCompetitor == <<pipelineVars, providerVars, crawlVars, discoverVars, llmVars,
                       evidenceVars, priceVars>>
outsidePrice == <<pipelineVars, providerVars, crawlVars, discoverVars, llmVars,
                  evidenceVars, competitorVars>>

(***************************************************************************)
(* Bounds of the model                                                     *)
(***************************************************************************)
MaxCompetitors == 2   \* longest competitor name list (ontology or user)
MaxNewsDocs == 1      \* most news documents fetched by the news stage
MaxQueries == 2       \* longest query batch handed to provider_collect
MaxUrl == 3           \* distinct result URLs a provider can answer with
MaxResults == 2       \* most results in one provider answer (per_query_cap)
MaxPaths == 1         \* distinct one-segment paths of the crawled site
MaxLinks == 2         \* most distinct link targets in one fetched page
MaxPages == 3         \* largest max_pages handed to crawl_site
MaxCandidates == 4    \* most candidates the provider hands to discover_seed_url
MaxScored == 2        \* most candidates in a scoring-only run
MaxDepth == 4         \* deepest URL path of a scored candidate
MaxThreshold == 3     \* largest min_keep_threshold

Unbound == "<unbound>"
NoValue == "<none>"

\* All sequences over S of length at most n.
SeqUpTo(S, n) == UNION {[1..k -> S] : k \in 0..n}
Range(s) == {s[k] : k \in 1..Len(s)}

\* progress(name, payload): a progress event; arg is the part of the payload
\* the properties read (a competitor name, a query), 0 when there is none.
Ev(n) == [name |-> n, arg |-> 0]
EvOf(n, a) == [name |-> n, arg |-> a]
EventNames(evs) == {evs[k].name : k \in 1..Len(evs)}


(***************************************************************************)
(* run_research_v3: values                                                 *)
(***************************************************************************)
\* Seed URLs a caller can pass: none, a well-formed one, one without a
\* scheme (urlparse gives an empty netloc) and one urlparse rejects
\* (an unbalanced '[' makes urlparse raise ValueError "Invalid IPv6 URL").
SeedUrls == {"", "https://www.acme.com/", "acme.com", "http://[acme"}
DiscoveredUrl == "https://found.example"
KeywordLists == {<<>>, <<"acme">>}
\* Competitor name lists: the first k names of the user's, or of the
\* ontology's, list of names.
\* A name is a number: j for the user's j-th name, -j for the ontology's.
UserList(k) == [j \in 1..k |-> j]
OntologyList(k) == [j \in 1..k |-> 0 - j]

UrlparseRaises(u) == u = "http://[acme"

\* re.sub(r"^www\.", "", urlparse(seed_url).netloc.split(":")[0]).split(".")[0]
BrandHintOf(u) ==
    CASE u = "https://www.acme.com/" -> "acme"
      [] u = DiscoveredUrl -> "found"
      [] OTHER -> ""

\* report[k] = v on a Python dict: the key is added when it is missing.
SetField(r, k, v) == [x \in DOMAIN r \cup {k} |-> IF x = k THEN v ELSE r[x]]

ReportFields == {"brand_profile", "ontology", "news_analysis", "raw_news_docs",
                 "shopping_data", "competitor_profiles",
                 "competitor_comparison_table", "run_meta"}

\* Field values.  err is TRUE when the value is an error string or carries a
\* non-empty "error" key.
EmptyProfile == [tag |-> "{}", brand |-> FALSE, products |-> FALSE, err |-> FALSE]
\* What brand_profile_from_pages can return (get_llm_response never raises:
\* a JSON object of the model, or the {"error": ...} shape).
LlmProfiles ==
    {[tag |-> "profile", brand |-> b, products |-> p, err |-> FALSE] : b, p \in BOOLEAN}
    \cup {[tag |-> "llm_error", brand |-> FALSE, products |-> FALSE, err |-> TRUE]}
ProfileStageError == [tag |-> "stage_error", brand |-> FALSE, products |-> FALSE, err |-> TRUE]

EmptyOntology == [tag |-> "{}", competitors |-> <<>>]
OntologyResults ==
    {[tag |-> "ontology", competitors |-> OntologyList(k)] : k \in 0..MaxCompetitors}

EmptyNews == [tag |-> "{}", err |-> FALSE]
\* What summarize_and_extract_insights can return.
NewsResults == {[tag |-> "insights", err |-> FALSE],
                [tag |-> "InsufficientData", err |-> TRUE],
                [tag |-> "llm_error", err |-> TRUE]}
NewsStageError == [tag |-> "stage_error", err |-> TRUE]

EmptyShopping == [tag |-> "{}", err |-> FALSE]
\* enrich_profile_with_shopping's early return for an empty query
EmptyQueryShopping == [tag |-> "empty_product", err |-> FALSE]

\* the default "분석 중 오류 발생" is itself an error string
DefaultTable == [tag |-> "default_error_string", err |-> TRUE]
\* generate_comparison_table returns the table text or the error string
TableResults == {[tag |-> "table", err |-> FALSE], [tag |-> "llm_error_string", err |-> TRUE]}

\* run_meta: the keys it holds; outdir is "out/<brand_hint>"
EmptyRunMeta == [keys |-> {}, brand_hint |-> NoValue]
RunMetaOf(h) == [keys |-> {"brand_hint", "outdir"}, brand_hint |-> h]

Qualities == {"minimal", "partial", "good"}

\* raw_news_docs = [fetch_evidence(m) for m in news_metas]
NewsDocLists == {[j \in 1..k |-> "doc"] : k \in 0..MaxNewsDocs}

InitialReport ==
    [brand_profile |-> EmptyProfile, ontology |-> EmptyOntology,
     news_analysis |-> EmptyNews, raw_news_docs |-> <<>>,
     shopping_data |-> EmptyShopping, competitor_profiles |-> <<>>,
     competitor_comparison_table |-> DefaultTable, run_meta |-> EmptyRunMeta]


(***************************************************************************)
(* run_research_v3: the call                                               *)
(***************************************************************************)
\* discover_seed_url returns a URL or None; it has no handler around
\* provider_collect, so an exception of provider_collect leaves it.
DiscoverOutcomes == {"url", "null", "raise"}

\* Where control goes when the except block of a stage has run.
AfterStageFailure_Reraise(next) == "fatal"

AfterStageFailure(next) == next

\* except-block of the news stage (main_agent.py:378-380)
NewsExcept_ResetsShopping(r) ==
    SetField(SetField(r, "news_analysis", NewsStageError), "shopping_data", EmptyShopping)

NewsExcept(r) == SetField(r, "news_analysis", NewsStageError)

\* except-block of the crawl+profile stage (main_agent.py:357-358)
ProfileExcept_ReplacesReport(r) == [brand_profile |-> ProfileStageError]

ProfileExcept_KeepsProfile(r) == r

ProfileExcept(r) == SetField(r, "brand_profile", ProfileStageError)

CompetitorNames_UserFirst(r, userList) ==
    IF userList # <<>> THEN userList
    ELSE IF "ontology" \in DOMAIN r THEN r["ontology"].competitors ELSE <<>>

\* names = report.get("ontology", {}).get("competitor_corporate_and_brand_name")
\*         or competitor_list or []
CompetitorNames(r, userList) ==
    IF "ontology" \in DOMAIN r /\ r["ontology"].competitors # <<>>
    THEN r["ontology"].competitors
    ELSE userList

NextName_Reversed(nameList, done) == nameList[Len(nameList) - Len(done)]

\* line 392: the comprehension takes the names from first to last
NextName(nameList, done) == nameList[Len(done) + 1]

PipelineInit ==
    /\ seed_url \in SeedUrls
    /\ keywords \in KeywordLists
    /\ competitor_list \in {UserList(k) : k \in 0..MaxCompetitors}
    /\ pc = "start"
    /\ report = InitialReport
    /\ brand_hint = Unbound
    /\ found = "not_called"
    /\ names = <<>>
    /\ acc = <<>>
    /\ events = <<>>
    /\ stagelog = <<>>
    /\ caught = {}
    /\ written = <<>>
    /\ returned = NoValue
    \* provider_collect is not running
    /\ p_pref = "ddg" /\ p_qs = <<>> /\ p_thr = 0 /\ p_env = {} /\ p_mode = "none"
    /\ p_pc = "idle" /\ p_i = 1 /\ p_items = <<>> /\ p_seen = {}
    /\ p_primary = <<>> /\ p_events = <<>> /\ p_calls = <<>> /\ p_result = NoValue
    \* crawl_site is not running
    /\ c_seed = <<>> /\ c_max = 0 /\ c_base = <<>> /\ c_queue = <<>> /\ c_seen = {}
    /\ c_pages = <<>> /\ c_events = <<>> /\ c_fetched = <<>> /\ c_pc = "idle"
    /\ c_result = NoValue
    \* discover_seed_url is not running
    /\ d_metas = <<>> /\ d_sorted = <<>> /\ d_k = 1 /\ d_fetched = <<>>
    /\ d_checked = <<>> /\ d_events = <<>> /\ d_pc = "idle" /\ d_result = NoValue
    \* get_llm_response is not running
    /\ l_caller = "none" /\ l_use = FALSE /\ l_json = TRUE /\ l_max = 0
    /\ l_delay = 0
    /\ l_script = <<>> /\ l_attempt = 0 /\ l_calls = 0 /\ l_sleeps = <<>>
    /\ l_pc = "idle" /\ l_resp = NoValue /\ l_verdict = NoValue
    \* fetch_evidence and summarize_and_extract_insights are not running
    /\ e_use = FALSE /\ e_web = <<>> /\ e_docs = <<>> /\ e_llm = 0 /\ e_pc = "idle"
    /\ e_result = NoValue
    \* create_competitor_profile is not running
    /\ k_site = NoValue /\ k_aware = NoValue /\ k_image = NoValue
    /\ k_profile = NoValue /\ k_events = <<>> /\ k_pc = "idle" /\ k_result = NoValue
    \* analyze_price_range is not running
    /\ a_mode = "none" /\ a_web = <<>> /\ a_pages = <<>> /\ a_pc = "idle"
    /\ a_result = NoValue

\* lines 331-337: emit stage:start, resolve the seed
RR_ResolveSeed ==
    /\ pc = "start"
    /\ stagelog' = Append(stagelog, "resolve_seed")
    /\ \/ /\ seed_url # ""
          /\ events' = Append(events, Ev("stage:start"))
          /\ pc' = "brand_hint"
          /\ UNCHANGED <<seed_url, found>>
       \/ /\ seed_url = "" /\ keywords = <<>>      \* raise ValueError (line 333)
          /\ events' = Append(events, Ev("stage:start"))
          /\ pc' = "fatal"
          /\ UNCHANGED <<seed_url, found>>
       \/ /\ seed_url = "" /\ keywords # <<>>
          /\ events' = events \o <<Ev("stage:start"), Ev("discover:start")>>
          /\ \E out \in DiscoverOutcomes :
                /\ found' = out
                /\ IF out = "url"
                   THEN seed_url' = DiscoveredUrl /\ pc' = "brand_hint"
                   ELSE seed_url' = seed_url /\ pc' = "fatal"   \* line 337, or the exception
    /\ UNCHANGED outsidePipeline
    /\ UNCHANGED <<keywords, competitor_list, report, brand_hint, names, acc,
                   caught, written, returned>>

\* lines 338-339: brand_hint and run_meta
RR_BrandHint ==
    /\ pc = "brand_hint"
    /\ IF UrlparseRaises(seed_url)
       THEN /\ pc' = "fatal"
            /\ UNCHANGED <<brand_hint, report>>
       ELSE /\ brand_hint' = BrandHintOf(seed_url)
            /\ report' = SetField(report, "run_meta", RunMetaOf(BrandHintOf(seed_url)))
            /\ pc' = "crawl"
    /\ UNCHANGED outsidePipeline
    /\ UNCHANGED <<seed_url, keywords, competitor_list, found, names, acc, events,
                   stagelog, caught, written, returned>>

\* lines 342-345 (and the handler 357-358): crawl, synthesize, store the profile
RR_CrawlProfile ==
    /\ pc = "crawl"
    /\ stagelog' = Append(stagelog, "crawl+profile")
    /\ \/ \E prof \in LlmProfiles :
             /\ report' = SetField(report, "brand_profile", prof)
             /\ events' = Append(events, Ev("crawl:done"))
             /\ pc' = "enrich"
             /\ UNCHANGED caught
       \/ /\ report' = ProfileExcept(report)
          /\ events' = Append(events, Ev("profile:error"))
          /\ caught' = caught \cup {"crawl+profile"}
          /\ pc' = AfterStageFailure("news")
    /\ UNCHANGED outsidePipeline
    /\ UNCHANGED <<seed_url, keywords, competitor_list, brand_hint, found, names, acc,
                   written, returned>>

\* lines 347-351: enrich_profile_with_shopping(profile), inside the
\* crawl+profile stage.  With a non-empty query it emits shopping_agent:start
\* and then calls scrape_ssg_playwright, a name main_agent.py never imports:
\* the call raises NameError, which the inner handler reports.
RR_EnrichProfile ==
    /\ pc = "enrich"
    /\ stagelog' = Append(stagelog, "shopping_enrichment")
    /\ IF report["brand_profile"].products \/ report["brand_profile"].brand
       THEN /\ events' = events \o <<Ev("shopping_agent:start"), Ev("shopping:error")>>
            /\ UNCHANGED report
       ELSE /\ report' = SetField(report, "shopping_data", EmptyQueryShopping)
            /\ UNCHANGED events
    /\ pc' = "ontology"
    /\ UNCHANGED outsidePipeline
    /\ UNCHANGED <<seed_url, keywords, competitor_list, brand_hint, found, names, acc,
                   caught, written, returned>>

\* lines 354-356 (and the handler 357-358): ontology_for, profile:done
RR_Ontology ==
    /\ pc = "ontology"
    /\ \/ \E o \in OntologyResults :
             /\ report' = SetField(report, "ontology", o)
             /\ events' = Append(events, Ev("profile:done"))
             /\ pc' = "news"
             /\ UNCHANGED caught
       \/ /\ report' = ProfileExcept(report)
          /\ events' = Append(events, Ev("profile:error"))
          /\ caught' = caught \cup {"crawl+profile"}
          /\ pc' = AfterStageFailure("news")
    /\ UNCHANGED outsidePipeline
    /\ UNCHANGED <<seed_url, keywords, competitor_list, brand_hint, found, names, acc,
                   stagelog, written, returned>>

\* lines 363-380: the news stage
RR_News ==
    /\ pc = "news"
    /\ stagelog' = Append(stagelog, "news_analysis")
    /\ \/ \E docs \in NewsDocLists, res \in NewsResults :
             /\ report' = SetField(SetField(report, "raw_news_docs", docs),
                                   "news_analysis", res)
             /\ pc' = "shopping"
             /\ UNCHANGED <<events, caught>>
       \/ \* provider_collect raised: nothing was stored yet
          /\ report' = NewsExcept(report)
          /\ events' = Append(events, Ev("news:error"))
          /\ caught' = caught \cup {"news_analysis"}
          /\ pc' = AfterStageFailure("shopping")
       \/ \* the analysis raised after raw_news_docs was stored
          \E docs \in NewsDocLists :
             /\ report' = NewsExcept(SetField(report, "raw_news_docs", docs))
             /\ events' = Append(events, Ev("news:error"))
             /\ caught' = caught \cup {"news_analysis"}
             /\ pc' = AfterStageFailure("shopping")
    /\ UNCHANGED outsidePipeline
    /\ UNCHANGED <<seed_url, keywords, competitor_list, brand_hint, found, names, acc,
                   written, returned>>

\* lines 383-387: get_shopping_data, which also ends in the NameError of
\* scrape_ssg_playwright; the handler only emits shopping:error
RR_Shopping ==
    /\ pc = "shopping"
    /\ stagelog' = Append(stagelog, "shopping_enrichment")
    /\ IF report["brand_profile"].products
       THEN /\ events' = events \o <<Ev("shopping_agent:start"), Ev("shopping:error")>>
            /\ caught' = caught \cup {"shopping_enrichment"}
            /\ pc' = AfterStageFailure("competitor_names")
       ELSE /\ pc' = "competitor_names"
            /\ UNCHANGED <<events, caught>>
    /\ UNCHANGED outsidePipeline
    /\ UNCHANGED <<seed_url, keywords, competitor_list, report, brand_hint, found,
                   names, acc, written, returned>>

\* line 391: the competitor name list
RR_CompetitorNames ==
    /\ pc = "competitor_names"
    /\ stagelog' = Append(stagelog, "competitor_batch")
    /\ names' = CompetitorNames(report, competitor_list)
    /\ acc' = <<>>
    /\ pc' = "competitor_loop"
    /\ UNCHANGED outsidePipeline
    /\ UNCHANGED <<seed_url, keywords, competitor_list, report, brand_hint, found,
                   events, caught, written, returned>>

\* line 392: one create_competitor_profile call of the comprehension.
\* The profile update at 290-297 is outside its handlers, so the call can raise.
RR_CompetitorStep ==
    /\ pc = "competitor_loop"
    /\ Len(acc) < Len(names)
    /\ LET name == NextName(names, acc) IN
       \/ \E q \in Qualities :
             /\ acc' = Append(acc, [brand |-> name, data_quality |-> q])
             /\ events' = events \o <<EvOf("competitor:start", name),
                                     EvOf("competitor:done", name)>>
             /\ UNCHANGED <<pc, caught>>
       \/ /\ events' = events \o <<EvOf("competitor:start", name), Ev("competitor:error")>>
          /\ caught' = caught \cup {"competitor_batch"}
          /\ pc' = AfterStageFailure("persist")
          /\ UNCHANGED acc
    /\ UNCHANGED outsidePipeline
    /\ UNCHANGED <<seed_url, keywords, competitor_list, report, brand_hint, found,
                   names, stagelog, written, returned>>

\* lines 393-414: store the profiles, then the comparison synthesis
RR_Comparison ==
    /\ pc = "competitor_loop"
    /\ Len(acc) = Len(names)
    /\ stagelog' = Append(stagelog, "comparison_synthesis")
    /\ \/ \E t \in TableResults :
             /\ report' = SetField(SetField(report, "competitor_profiles", acc),
                                   "competitor_comparison_table", t)
             /\ events' = Append(events, Ev("sns_agent:start"))
             /\ pc' = "persist"
             /\ UNCHANGED caught
       \/ \* get_consumer_image or synthesize_brand_analysis raised
          /\ report' = SetField(report, "competitor_profiles", acc)
          /\ events' = events \o <<Ev("sns_agent:start"), Ev("competitor:error")>>
          /\ caught' = caught \cup {"comparison_synthesis"}
          /\ pc' = AfterStageFailure("persist")
    /\ UNCHANGED outsidePipeline
    /\ UNCHANGED <<seed_url, keywords, competitor_list, brand_hint, found, names, acc,
                   written, returned>>

\* lines 416-417: the outer handler
RR_Fatal ==
    /\ pc = "fatal"
    /\ events' = Append(events, Ev("pipeline:fatal_error"))
    /\ pc' = "persist"
    /\ UNCHANGED outsidePipeline
    /\ UNCHANGED <<seed_url, keywords, competitor_list, report, brand_hint, found,
                   names, acc, stagelog, caught, written, returned>>

\* lines 418-424: the finally block.  The default argument of .get(),
\* f"out/{brand_hint or 'default'}", is evaluated before the lookup: it
\* raises UnboundLocalError when line 338 never assigned brand_hint.
RR_Persist ==
    /\ pc = "persist"
    /\ stagelog' = Append(stagelog, "persist")
    /\ IF brand_hint = Unbound
       THEN /\ pc' = "raised"
            /\ UNCHANGED <<events, written, returned>>
       ELSE /\ written' = Append(written, report)
            /\ events' = Append(events, Ev("stage:done"))
            /\ returned' = report
            /\ pc' = "returned"
    /\ UNCHANGED outsidePipeline
    /\ UNCHANGED <<seed_url, keywords, competitor_list, report, brand_hint, found,
                   names, acc, caught>>

PipelineNext ==
    \/ RR_ResolveSeed \/ RR_BrandHint \/ RR_CrawlProfile \/ RR_EnrichProfile
    \/ RR_Ontology \/ RR_News \/ RR_Shopping \/ RR_CompetitorNames
    \/ RR_CompetitorStep \/ RR_Comparison \/ RR_Fatal \/ RR_Persist

SpecPipeline == PipelineInit /\ [][PipelineNext]_vars


(***************************************************************************)
(* run_research_v3: properties                                             *)
(***************************************************************************)
Ended == pc \in {"returned", "raised"}

\* The stage that follows each stage; the competitor batch and the
\* comparison synthesis share one handler (lines 390-414).
StageOrder == <<"resolve_seed", "crawl+profile", "news_analysis", "shopping_enrichment",
                "competitor_batch", "comparison_synthesis", "persist">>
StageIndex(st) == CHOOSE k \in 1..Len(StageOrder) : StageOrder[k] = st
HandlerFollowers(st) ==
    CASE st = "crawl+profile" -> {"news_analysis", "shopping_enrichment", "competitor_batch", "persist"}
      [] st = "news_analysis" -> {"shopping_enrichment", "competitor_batch", "persist"}
      [] st = "shopping_enrichment" -> {"competitor_batch", "persist"}
      [] OTHER -> {"persist"}

\* The report field and the progress event of each stage's handler.
StageField(st) ==
    CASE st = "crawl+profile" -> "brand_profile"
      [] st = "news_analysis" -> "news_analysis"
      [] st = "shopping_enrichment" -> "shopping_data"
      [] OTHER -> "competitor_comparison_table"
StageErrorEvent(st) ==
    CASE st = "crawl+profile" -> "profile:error"
      [] st = "news_analysis" -> "news:error"
      [] st = "shopping_enrichment" -> "shopping:error"
      [] OTHER -> "competitor:error"

\* The parameter seed_url was empty (the variable is rebound at line 336).
SeedParamEmpty == seed_url = "" \/ found # "not_called"
FatalPath ==
    /\ "pipeline:fatal_error" \in EventNames(events)
    /\ Range(stagelog) \subseteq {"resolve_seed", "persist"}

\* C1: every call of run_research_v3 writes the report exactly once before it
\* ends, the fatal no-seed case included.
C1_WrittenExactlyOnce == Ended => Len(written) = 1

C3_FatalIffNoSeed ==
    Ended => (FatalPath <=> (SeedParamEmpty /\ (keywords = <<>> \/ found = "null")))

\* C4: an exception raised inside a stage is recorded as a progress event and
\* as an error in that stage's field of the report.
C4_StageExceptionsRecorded ==
    \A st \in caught :
        /\ StageErrorEvent(st) \in EventNames(events)
        /\ report[StageField(st)].err

\* C5: when the news stage raises, news_analysis becomes an error object and
\* brand_profile, ontology and shopping_data keep their values.
C5_NewsFailureFrame ==
    [][(pc = "news" /\ "news_analysis" \in caught') =>
          /\ report'["news_analysis"].err
          /\ report'["brand_profile"] = report["brand_profile"]
          /\ report'["ontology"] = report["ontology"]
          /\ report'["shopping_data"] = report["shopping_data"]]_vars

C5_Witness ==
    /\ "news_analysis" \in caught
    /\ report["news_analysis"] = NewsStageError
    /\ report["brand_profile"].tag = "profile"
    /\ report["ontology"].competitors # <<>>
    /\ report["shopping_data"] = EmptyQueryShopping

\* C6: the report holds its eight top-level fields at every point of a run,
\* and so does whatever is written or returned.
C6_ReportComplete ==
    /\ ReportFields \subseteq DOMAIN report
    /\ \A k \in 1..Len(written) : ReportFields \subseteq DOMAIN written[k]
    /\ pc = "returned" => ReportFields \subseteq DOMAIN returned

C6_Witness ==
    /\ pc = "returned"
    /\ Len(written) = 1
    /\ {"crawl+profile", "news_analysis"} \subseteq caught
    /\ report["competitor_profiles"] # <<>>

\* C7: the stages are entered in the fixed order, each at most once; no
\* shopping scrape is started before the news analysis has finished;
\* stage:start is the first and stage:done the last event of the run.
C7_StageOrder ==
    /\ \A i, j \in 1..Len(stagelog) :
          i < j => StageIndex(stagelog[i]) < StageIndex(stagelog[j])
    /\ "shopping_agent:start" \in EventNames(events) =>
          /\ "news_analysis" \in Range(stagelog)
          /\ pc # "news"
    /\ Ended => /\ events[1].name = "stage:start"
                /\ events[Len(events)].name = "stage:done"


(***************************************************************************)
(* provider_collect, ddg_collect, tavily_collect                           *)
(***************************************************************************)
\* A query is 0 when _sanitize_query leaves nothing of it (None, blanks or
\* newlines only) and 1 otherwise.  An href is 0 when the result has no
\* "href"/"url", and a URL 1..MaxUrl otherwise.
QueryKinds == {0, 1}
Hrefs == 0..MaxUrl
Answers == SeqUpTo(Hrefs, MaxResults)
EnvNames == {"Tavily_API_KEY", "TAVILY_API_KEY"}
Providers == {"ddg", "tavily"}

\* _sanitize_query(q) is the empty string
SanitizesToEmpty(q) == q = 0

Item(u, via) == [url |-> u, via |-> via]
Urls(items) == {items[k].url : k \in 1..Len(items)}

\* The result loop of a provider call (providers.py:18-21 and 39-46) from
\* the k-th result on: an href is kept when it is present and not yet seen.
RECURSIVE AbsorbFrom_NoSeen(_, _, _, _, _)
AbsorbFrom_NoSeen(items, seen, hrefs, via, k) ==
    IF k > Len(hrefs) THEN [items |-> items, seen |-> seen]
    ELSE IF hrefs[k] # 0
         THEN AbsorbFrom_NoSeen(Append(items, Item(hrefs[k], via)), seen \cup {hrefs[k]},
                                hrefs, via, k + 1)
         ELSE AbsorbFrom_NoSeen(items, seen, hrefs, via, k + 1)

RECURSIVE AbsorbFrom(_, _, _, _, _)
AbsorbFrom(items, seen, hrefs, via, k) ==
    IF k > Len(hrefs) THEN [items |-> items, seen |-> seen]
    ELSE IF hrefs[k] # 0 /\ hrefs[k] \notin seen
         THEN AbsorbFrom(Append(items, Item(hrefs[k], via)), seen \cup {hrefs[k]},
                         hrefs, via, k + 1)
         ELSE AbsorbFrom(items, seen, hrefs, via, k + 1)

\* _merge (providers.py:52-56): seen_urls is computed once, from primary
RECURSIVE MergeFrom(_, _, _, _)
MergeFrom(primary, seenUrls, secondary, k) ==
    IF k > Len(secondary) THEN primary
    ELSE IF secondary[k].url \notin seenUrls
         THEN MergeFrom(Append(primary, secondary[k]), seenUrls, secondary, k + 1)
         ELSE MergeFrom(primary, seenUrls, secondary, k + 1)

Merge_AppendsAll(primary, secondary) == primary \o secondary

Merge(primary, secondary) == MergeFrom(primary, Urls(primary), secondary, 1)

\* line 59: the advanced provider is used when it is preferred and the
\* environment variable "Tavily_API_KEY" is set
UsesTavily(pref, env) == pref = "tavily" /\ "Tavily_API_KEY" \in env

\* line 61
NeedsFallback_OffByOne(primary, thr) == Len(primary) <= thr

NeedsFallback(primary, thr) == Len(primary) < thr

ProviderInit ==
    /\ p_pref \in Providers
    /\ p_qs \in SeqUpTo(QueryKinds, MaxQueries)
    /\ p_thr \in 0..MaxThreshold
    /\ p_env \in SUBSET EnvNames
    /\ p_mode = "none"
    /\ p_pc = "start"
    /\ p_i = 1
    /\ p_items = <<>>
    /\ p_seen = {}
    /\ p_primary = <<>>
    /\ p_events = <<>>
    /\ p_calls = <<>>
    /\ p_result = NoValue
    \* run_research_v3 is not running
    /\ seed_url = "" /\ keywords = <<>> /\ competitor_list = <<>> /\ pc = "idle"
    /\ report = InitialReport /\ brand_hint = Unbound /\ found = "not_called"
    /\ names = <<>> /\ acc = <<>> /\ events = <<>> /\ stagelog = <<>>
    /\ caught = {} /\ written = <<>> /\ returned = NoValue
    \* crawl_site is not running
    /\ c_seed = <<>> /\ c_max = 0 /\ c_base = <<>> /\ c_queue = <<>> /\ c_seen = {}
    /\ c_pages = <<>> /\ c_events = <<>> /\ c_fetched = <<>> /\ c_pc = "idle"
    /\ c_result = NoValue
    \* discover_seed_url is not running
    /\ d_metas = <<>> /\ d_sorted = <<>> /\ d_k = 1 /\ d_fetched = <<>>
    /\ d_checked = <<>> /\ d_events = <<>> /\ d_pc = "idle" /\ d_result = NoValue
    \* get_llm_response is not running
    /\ l_caller = "none" /\ l_use = FALSE /\ l_json = TRUE /\ l_max = 0
    /\ l_delay = 0
    /\ l_script = <<>> /\ l_attempt = 0 /\ l_calls = 0 /\ l_sleeps = <<>>
    /\ l_pc = "idle" /\ l_resp = NoValue /\ l_verdict = NoValue
    \* fetch_evidence and summarize_and_extract_insights are not running
    /\ e_use = FALSE /\ e_web = <<>> /\ e_docs = <<>> /\ e_llm = 0 /\ e_pc = "idle"
    /\ e_result = NoValue
    \* create_competitor_profile is not running
    /\ k_site = NoValue /\ k_aware = NoValue /\ k_image = NoValue
    /\ k_profile = NoValue /\ k_events = <<>> /\ k_pc = "idle" /\ k_result = NoValue
    \* analyze_price_range is not running
    /\ a_mode = "none" /\ a_web = <<>> /\ a_pages = <<>> /\ a_pc = "idle"
    /\ a_result = NoValue

\* lines 58-59, 65-66: choose the first provider
PC_Choose ==
    /\ p_pc = "start"
    /\ IF UsesTavily(p_pref, p_env)
       THEN p_mode' = "tavily" /\ p_pc' = "tavily_begin"
       ELSE p_mode' = "ddg_primary" /\ p_pc' = "ddg_begin"
    /\ UNCHANGED <<p_pref, p_qs, p_thr, p_env, p_i, p_items, p_seen, p_primary,
                   p_events, p_calls, p_result>>
    /\ UNCHANGED outsideProvider

\* tavily_collect, lines 28-33 (and the handler at 48-49 for the client):
\* the key read here is "TAVILY_API_KEY".  When TavilyClient(...) raises, the
\* handler formats {"query": q} while q is still unassigned, so an
\* UnboundLocalError leaves tavily_collect and provider_collect.
PC_TavilyBegin ==
    /\ p_pc = "tavily_begin"
    /\ \/ /\ "TAVILY_API_KEY" \notin p_env
          /\ p_events' = Append(p_events, Ev("tavily:error"))
          /\ p_primary' = <<>>
          /\ p_pc' = "tavily_returned"
          /\ UNCHANGED <<p_i, p_items, p_seen>>
       \/ /\ "TAVILY_API_KEY" \in p_env
          /\ p_i' = 1 /\ p_items' = <<>> /\ p_seen' = {}
          /\ p_pc' = "tavily_loop"
          /\ UNCHANGED <<p_events, p_primary>>
       \/ /\ "TAVILY_API_KEY" \in p_env
          /\ p_pc' = "raised"
          /\ UNCHANGED <<p_events, p_primary, p_i, p_items, p_seen>>
    /\ UNCHANGED <<p_pref, p_qs, p_thr, p_mode, p_env, p_calls, p_result>>
    /\ UNCHANGED outsideProvider

\* tavily_collect, lines 34-46 and 48-49: one query of the batch.  The try
\* encloses the whole loop: an exception ends the call with [].
PC_TavilyQuery ==
    /\ p_pc = "tavily_loop"
    /\ p_i <= Len(p_qs)
    /\ IF SanitizesToEmpty(p_qs[p_i])
       THEN /\ p_i' = p_i + 1
            /\ UNCHANGED <<p_items, p_seen, p_primary, p_events, p_calls, p_pc>>
       ELSE \/ \E ans \in Answers :
                 LET a == AbsorbFrom(p_items, p_seen, ans, "tavily", 1) IN
                 /\ p_items' = a.items
                 /\ p_seen' = a.seen
                 /\ p_events' = Append(p_events, EvOf("tavily:query", p_i))
                 /\ p_calls' = Append(p_calls, [prov |-> "tavily", idx |-> p_i, ok |-> TRUE])
                 /\ p_i' = p_i + 1
                 /\ UNCHANGED <<p_primary, p_pc>>
            \/ /\ p_events' = p_events \o <<EvOf("tavily:query", p_i), EvOf("tavily:error", p_i)>>
               /\ p_calls' = Append(p_calls, [prov |-> "tavily", idx |-> p_i, ok |-> FALSE])
               /\ p_primary' = <<>>
               /\ p_pc' = "tavily_returned"
               /\ UNCHANGED <<p_i, p_items, p_seen>>
    /\ UNCHANGED <<p_pref, p_qs, p_thr, p_mode, p_env, p_result>>
    /\ UNCHANGED outsideProvider

\* tavily_collect, line 47, and provider_collect, line 60
PC_TavilyReturn ==
    /\ p_pc = "tavily_loop"
    /\ p_i > Len(p_qs)
    /\ p_primary' = p_items
    /\ p_pc' = "tavily_returned"
    /\ UNCHANGED <<p_pref, p_qs, p_thr, p_mode, p_env, p_i, p_items, p_seen, p_events,
                   p_calls, p_result>>
    /\ UNCHANGED outsideProvider

\* provider_collect, lines 61-63 and 67
PC_AfterTavily ==
    /\ p_pc = "tavily_returned"
    /\ IF NeedsFallback(p_primary, p_thr)
       THEN /\ p_events' = Append(p_events, Ev("provider:fallback"))
            /\ p_mode' = "ddg_fallback"
            /\ p_pc' = "ddg_begin"
            /\ UNCHANGED p_result
       ELSE /\ p_result' = p_primary
            /\ p_pc' = "done"
            /\ UNCHANGED <<p_events, p_mode>>
    /\ UNCHANGED <<p_pref, p_qs, p_thr, p_env, p_i, p_items, p_seen, p_primary, p_calls>>
    /\ UNCHANGED outsideProvider

\* ddg_collect, lines 10-11: DDGS() is created outside every handler
PC_DdgBegin ==
    /\ p_pc = "ddg_begin"
    /\ \/ /\ p_i' = 1 /\ p_items' = <<>> /\ p_seen' = {}
          /\ p_pc' = "ddg_loop"
       \/ /\ p_pc' = "raised"
          /\ UNCHANGED <<p_i, p_items, p_seen>>
    /\ UNCHANGED <<p_pref, p_qs, p_thr, p_mode, p_env, p_primary, p_events, p_calls,
                   p_result>>
    /\ UNCHANGED outsideProvider

\* ddg_collect, lines 12-24: one query of the batch, with its own handler
PC_DdgQuery ==
    /\ p_pc = "ddg_loop"
    /\ p_i <= Len(p_qs)
    /\ IF SanitizesToEmpty(p_qs[p_i])
       THEN UNCHANGED <<p_items, p_seen, p_events, p_calls>>
       ELSE \/ \E ans \in Answers :
                 LET a == AbsorbFrom(p_items, p_seen, ans, "ddg", 1) IN
                 /\ p_items' = a.items
                 /\ p_seen' = a.seen
                 /\ p_events' = Append(p_events, EvOf("ddg:query", p_i))
                 /\ p_calls' = Append(p_calls, [prov |-> "ddg", idx |-> p_i, ok |-> TRUE])
            \/ /\ p_events' = p_events \o <<EvOf("ddg:query", p_i), EvOf("ddg:error", p_i)>>
               /\ p_calls' = Append(p_calls, [prov |-> "ddg", idx |-> p_i, ok |-> FALSE])
               /\ UNCHANGED <<p_items, p_seen>>
    /\ p_i' = p_i + 1
    /\ UNCHANGED <<p_pref, p_qs, p_thr, p_mode, p_env, p_primary, p_pc, p_result>>
    /\ UNCHANGED outsideProvider

\* ddg_collect, line 25, and provider_collect, lines 64 and 66-67;
\* _merge appends to primary_results in place
PC_DdgReturn ==
    /\ p_pc = "ddg_loop"
    /\ p_i > Len(p_qs)
    /\ p_primary' = IF p_mode = "ddg_fallback" THEN Merge(p_primary, p_items) ELSE p_items
    /\ p_result' = p_primary'
    /\ p_pc' = "done"
    /\ UNCHANGED <<p_pref, p_qs, p_thr, p_mode, p_env, p_i, p_items, p_seen, p_events,
                   p_calls>>
    /\ UNCHANGED outsideProvider

ProviderNext ==
    \/ PC_Choose \/ PC_TavilyBegin \/ PC_TavilyQuery \/ PC_TavilyReturn
    \/ PC_AfterTavily \/ PC_DdgBegin \/ PC_DdgQuery \/ PC_DdgReturn

SpecProvider == ProviderInit /\ [][ProviderNext]_vars


(***************************************************************************)
(* provider_collect: properties                                            *)
(***************************************************************************)
NoDuplicateUrls(items) ==
    \A i, j \in 1..Len(items) : i # j => items[i].url # items[j].url
FromTavily(items) == {k \in 1..Len(items) : items[k].via = "tavily"}
ProvidersQueried == {p_calls[k].prov : k \in 1..Len(p_calls)}

C9_NeverRaises ==
    /\ p_pc # "raised"
    /\ (p_pc = "done" /\ \A k \in 1..Len(p_calls) : ~p_calls[k].ok) => p_result = <<>>

\* C10: the second provider is never queried when the preferred provider
\* returned at least min_keep_threshold results, and never when the preferred
\* provider is 'ddg'; provider:fallback is emitted exactly when the second
\* provider is called.
C10_FallbackOnlyWhenNeeded ==
    /\ p_mode = "ddg_fallback" => p_pref = "tavily"
    /\ (p_mode = "ddg_fallback" /\ p_pc # "done") => Len(p_primary) < p_thr
    /\ (p_mode = "ddg_fallback" /\ p_pc = "done") =>
          Cardinality(FromTavily(p_result)) < p_thr
    /\ p_mode # "ddg_fallback" => Cardinality(ProvidersQueried) <= 1
    /\ p_mode = "tavily" => "ddg" \notin ProvidersQueried
    /\ p_pref = "ddg" => /\ p_mode \in {"none", "ddg_primary"}
                         /\ "tavily" \notin ProvidersQueried
    /\ "provider:fallback" \in EventNames(p_events) <=> p_mode = "ddg_fallback"

C10_Witness ==
    /\ p_pc = "done"
    /\ p_mode = "tavily"
    /\ p_thr > 0
    /\ Len(p_result) = p_thr
    /\ "provider:fallback" \notin EventNames(p_events)

\* every query of the batch that does not sanitize to "" was sent to prov
AllIssued(prov) ==
    \A i \in 1..Len(p_qs) :
       ~SanitizesToEmpty(p_qs[i]) =>
          \E k \in 1..Len(p_calls) : p_calls[k].prov = prov /\ p_calls[k].idx = i

\* C11: when the advanced provider was preferred and returned fewer than
\* min_keep_threshold results, the call that returns has sent every query of
\* the batch to the fallback provider, and it returns the primary results in
\* their order followed by exactly the fallback results, in their order, whose
\* url is not among the primary ones.
C11_FallbackMerge ==
    [][(p_pc = "ddg_loop" /\ p_pc' = "done" /\ p_mode = "ddg_fallback") =>
          LET Fresh(it) == it.url \notin Urls(p_primary) IN
          /\ Len(p_primary) < p_thr
          /\ \A k \in 1..Len(p_primary) : p_primary[k].via = "tavily"
          /\ \A k \in 1..Len(p_items) : p_items[k].via = "ddg"
          /\ AllIssued("ddg")
          /\ p_result' = p_primary \o SelectSeq(p_items, Fresh)]_vars

C11_Witness ==
    /\ p_pc = "done"
    /\ p_mode = "ddg_fallback"
    /\ Cardinality(FromTavily(p_result)) >= 2
    /\ Len(p_items) >= 2
    /\ \E k \in 1..Len(p_items), j \in FromTavily(p_result) :
          p_items[k].url = p_result[j].url
    /\ \E j \in 1..Len(p_result) : p_result[j].via = "ddg"

\* C12: in each provider call an exception on one query of the batch only
\* skips that query: a provider call that ran its loop has sent every query
\* of the batch, and what the advanced provider hands back is everything its
\* queries collected.
C12_QueryFailureSkipsOnlyThatQuery ==
    /\ (p_pc = "tavily_returned" /\ "TAVILY_API_KEY" \in p_env) =>
          /\ AllIssued("tavily")
          /\ p_primary = p_items
    /\ (p_pc = "done" /\ p_mode \in {"ddg_primary", "ddg_fallback"}) =>
          AllIssued("ddg")

(***************************************************************************)
(* crawl_site (src/modules/crawler.py)                                     *)
(*                                                                         *)
(* A URL string is the sequence of its pieces: the scheme with "://", the  *)
(* dot-separated labels of the host, the path segments, a trailing "/".    *)
(* startswith and rstrip work on that sequence as they do on the string.   *)
(***************************************************************************)
Tok(k, n) == [k |-> k, n |-> n]
Scheme == Tok("scheme", 0)
Label(n) == Tok("label", n)
Seg(n) == Tok("seg", n)
Slash == Tok("slash", 0)

IsPathTok(t) == t.k \in {"seg", "slash"}

\* str.rstrip("/"), line 8
RECURSIVE Rstrip(_)
Rstrip(u) ==
    IF u # <<>> /\ u[Len(u)] = Slash THEN Rstrip(SubSeq(u, 1, Len(u) - 1)) ELSE u

\* urlparse(u).scheme + "://" + urlparse(u).netloc, line 9: the pieces
\* before the path
Origin(u) ==
    SubSeq(u, 1, Cardinality({i \in 1..Len(u) : \A j \in 1..i : ~IsPathTok(u[j])}))

\* str.startswith, lines 18 and 29
StartsWith(u, b) == Len(b) <= Len(u) /\ SubSeq(u, 1, Len(b)) = b

\* the site: https://acme.com, its pages, a host that extends the site's
\* host name (https://acme.com.evil.org) and an unrelated social network host
SiteRoot == <<Scheme, Label(1), Label(2)>>
SitePage(n) == Append(SiteRoot, Seg(n))
SitePages == {SiteRoot, Append(SiteRoot, Slash)} \cup {SitePage(n) : n \in 1..MaxPaths}
Lookalike == <<Scheme, Label(1), Label(2), Label(3)>>
Elsewhere == <<Scheme, Label(4)>>

\* what urljoin(u, a["href"]).split("#")[0] can be for the anchors of a page
LinkTargets == SitePages \cup {Lookalike, Elsewhere}
LinkSets == {ls \in SUBSET LinkTargets : Cardinality(ls) <= MaxLinks}

Seeds == {SiteRoot, Append(SiteRoot, Slash), SitePage(1), Append(SitePage(1), Slash)}

\* _score_url_for_crawl (utils.py 50-57), in tenths; which hosts and path
\* words are in the configured lists is a property of the pieces
IsSnsHost(u) == \E i \in 1..Len(u) : u[i] = Label(4)
HasBlockWord(u) == \E i \in 1..Len(u) : u[i].k = "seg" /\ u[i].n % 3 = 0
HasAllowWord(u) == \E i \in 1..Len(u) : u[i].k = "seg" /\ u[i].n % 2 = 1
ScoreUrlForCrawl(u) ==
    IF IsSnsHost(u) THEN 30
    ELSE (IF HasBlockWord(u) THEN -10 ELSE 0) + (IF HasAllowWord(u) THEN 12 ELSE 0)

\* line 33: at most ten links of a page are enqueued
FanOut == 10

\* line 32: sorted(set(nexts), key=score, reverse=True); the order in which
\* the set hands out links of equal score is not determined
SortedOrders(S) ==
    {q \in [1..Cardinality(S) -> S] :
        /\ \A i, j \in 1..Cardinality(S) : i # j => q[i] # q[j]
        /\ \A i, j \in 1..Cardinality(S) :
              i < j => ScoreUrlForCrawl(q[i]) >= ScoreUrlForCrawl(q[j])}
FirstN(q, n) == SubSeq(q, 1, IF Len(q) < n THEN Len(q) ELSE n)

\* a page as appended at line 22
Page(u) == [url |-> u]
PageUrls(pages) == {pages[k].url : k \in 1..Len(pages)}

CEv(name, u, n) == [name |-> name, url |-> u, count |-> n]

\* line 14
ContinueLoop_OffByOne(queue, pages, max) == queue # <<>> /\ Len(pages) <= max

ContinueLoop(queue, pages, max) == queue # <<>> /\ Len(pages) < max

\* line 15: queue.pop(0)
Rest_KeepsHead(queue) == queue

Rest(queue) == Tail(queue)

Extend_AtFront(queue, nexts) == nexts \o queue

\* line 33: queue.extend
Extend(queue, nexts) == queue \o nexts

\* line 17
MarkSeen_Forgets(seen, u) == seen

MarkSeen(seen, u) == seen \cup {u}

\* lines 35-36: the handler is inside the loop, the loop goes on
AfterPageError_Aborts == "aborted"

AfterPageError == "loop"

CrawlInit ==
    /\ c_seed \in Seeds
    /\ c_max \in 0..MaxPages
    /\ c_pc = "start"
    /\ c_base = <<>> /\ c_queue = <<>> /\ c_seen = {} /\ c_pages = <<>>
    /\ c_events = <<>> /\ c_fetched = <<>> /\ c_result = NoValue
    \* run_research_v3 is not running
    /\ seed_url = "" /\ keywords = <<>> /\ competitor_list = <<>> /\ pc = "idle"
    /\ report = InitialReport /\ brand_hint = Unbound /\ found = "not_called"
    /\ names = <<>> /\ acc = <<>> /\ events = <<>> /\ stagelog = <<>>
    /\ caught = {} /\ written = <<>> /\ returned = NoValue
    \* provider_collect is not running
    /\ p_pref = "ddg" /\ p_qs = <<>> /\ p_thr = 0 /\ p_env = {} /\ p_mode = "none"
    /\ p_pc = "idle" /\ p_i = 1 /\ p_items = <<>> /\ p_seen = {}
    /\ p_primary = <<>> /\ p_events = <<>> /\ p_calls = <<>> /\ p_result = NoValue
    \* discover_seed_url is not running
    /\ d_metas = <<>> /\ d_sorted = <<>> /\ d_k = 1 /\ d_fetched = <<>>
    /\ d_checked = <<>> /\ d_events = <<>> /\ d_pc = "idle" /\ d_result = NoValue
    \* get_llm_response is not running
    /\ l_caller = "none" /\ l_use = FALSE /\ l_json = TRUE /\ l_max = 0
    /\ l_delay = 0
    /\ l_script = <<>> /\ l_attempt = 0 /\ l_calls = 0 /\ l_sleeps = <<>>
    /\ l_pc = "idle" /\ l_resp = NoValue /\ l_verdict = NoValue
    \* fetch_evidence and summarize_and_extract_insights are not running
    /\ e_use = FALSE /\ e_web = <<>> /\ e_docs = <<>> /\ e_llm = 0 /\ e_pc = "idle"
    /\ e_result = NoValue
    \* create_competitor_profile is not running
    /\ k_site = NoValue /\ k_aware = NoValue /\ k_image = NoValue
    /\ k_profile = NoValue /\ k_events = <<>> /\ k_pc = "idle" /\ k_result = NoValue
    \* analyze_price_range is not running
    /\ a_mode = "none" /\ a_web = <<>> /\ a_pages = <<>> /\ a_pc = "idle"
    /\ a_result = NoValue

\* lines 8-12
CS_Begin ==
    /\ c_pc = "start"
    /\ c_base' = Origin(Rstrip(c_seed))
    /\ c_queue' = <<Rstrip(c_seed)>>
    /\ c_seen' = {}
    /\ c_pages' = <<>>
    /\ c_pc' = "loop"
    /\ UNCHANGED <<c_seed, c_max, c_events, c_fetched, c_result>>
    /\ UNCHANGED outsideCrawl

\* lines 14-18: the popped URL was seen before, or does not start with base
CS_Skip ==
    /\ c_pc = "loop"
    /\ ContinueLoop(c_queue, c_pages, c_max)
    /\ LET u == Head(c_queue) IN
       /\ u \in c_seen \/ ~StartsWith(u, c_base)
       /\ c_seen' = MarkSeen(c_seen, u)
    /\ c_queue' = Rest(c_queue)
    /\ UNCHANGED <<c_seed, c_max, c_base, c_pages, c_events, c_fetched, c_pc, c_result>>
    /\ UNCHANGED outsideCrawl

\* lines 14-21 and 35-36: fetch (or extract_text) raises before the append
CS_FetchFails ==
    /\ c_pc = "loop"
    /\ ContinueLoop(c_queue, c_pages, c_max)
    /\ LET u == Head(c_queue) IN
       /\ u \notin c_seen /\ StartsWith(u, c_base)
       /\ c_seen' = MarkSeen(c_seen, u)
       /\ c_fetched' = Append(c_fetched, u)
       /\ c_events' = Append(c_events, CEv("crawl:error", u, 0))
    /\ c_queue' = Rest(c_queue)
    /\ c_pc' = AfterPageError
    /\ UNCHANGED <<c_seed, c_max, c_base, c_pages, c_result>>
    /\ UNCHANGED outsideCrawl

\* lines 14-28 and 35-36: the page is appended (22) and announced (23), then
\* BeautifulSoup or urljoin raises on its anchors (25-28): no link of the
\* page is read to the end and nothing is enqueued
CS_LinksFail ==
    /\ c_pc = "loop"
    /\ ContinueLoop(c_queue, c_pages, c_max)
    /\ LET u == Head(c_queue) IN
       /\ u \notin c_seen /\ StartsWith(u, c_base)
       /\ c_seen' = MarkSeen(c_seen, u)
       /\ c_fetched' = Append(c_fetched, u)
       /\ c_pages' = Append(c_pages, Page(u))
       /\ c_events' = c_events \o <<CEv("crawl:page", u, Len(c_pages) + 1),
                                     CEv("crawl:error", u, 0)>>
    /\ c_queue' = Rest(c_queue)
    /\ c_pc' = AfterPageError
    /\ UNCHANGED <<c_seed, c_max, c_base, c_result>>
    /\ UNCHANGED outsideCrawl

\* lines 14-34: the page is fetched, appended, and its links are enqueued
CS_FetchOk ==
    /\ c_pc = "loop"
    /\ ContinueLoop(c_queue, c_pages, c_max)
    /\ LET u == Head(c_queue) IN
       /\ u \notin c_seen /\ StartsWith(u, c_base)
       /\ c_seen' = MarkSeen(c_seen, u)
       /\ c_fetched' = Append(c_fetched, u)
       /\ c_events' = Append(c_events, CEv("crawl:page", u, Len(c_pages) + 1))
       /\ \E ls \in LinkSets :
             LET nexts == {n \in ls : StartsWith(n, c_base) /\ n \notin c_seen'} IN
             /\ c_pages' = Append(c_pages, Page(u))
             /\ \E order \in SortedOrders(nexts) :
                   c_queue' = Extend(Rest(c_queue), FirstN(order, FanOut))
    /\ UNCHANGED <<c_seed, c_max, c_base, c_pc, c_result>>
    /\ UNCHANGED outsideCrawl

\* lines 14 and 38-39: the loop ends, crawl:done, return pages
CS_Return ==
    /\ c_pc = "loop"
    /\ ~ContinueLoop(c_queue, c_pages, c_max)
    /\ c_events' = Append(c_events, CEv("crawl:done", <<>>, Len(c_pages)))
    /\ c_result' = c_pages
    /\ c_pc' = "returned"
    /\ UNCHANGED <<c_seed, c_max, c_base, c_queue, c_seen, c_pages, c_fetched>>
    /\ UNCHANGED outsideCrawl

CrawlNext ==
    \/ CS_Begin \/ CS_Skip \/ CS_FetchFails \/ CS_LinksFail \/ CS_FetchOk \/ CS_Return

SpecCrawl == CrawlInit /\ [][CrawlNext]_vars

\* the call keeps running: every step of the loop ends (fetch has a timeout)
SpecCrawlFair == SpecCrawl /\ WF_vars(CrawlNext)

(***************************************************************************)
(* Properties of crawl_site                                                *)
(***************************************************************************)
ErrorUrls == {c_events[k].url : k \in {j \in 1..Len(c_events) : c_events[j].name = "crawl:error"}}
Occurrences(q, u) == Cardinality({k \in 1..Len(q) : q[k] = u})
IsPrefix(a, b) == Len(a) <= Len(b) /\ SubSeq(b, 1, Len(a)) = a

\* C13: crawl_site never fetches a URL whose origin (scheme + host) differs
\* from the origin of the seed URL, whatever links the fetched pages contain.
C13_SameOriginOnly ==
    \A k \in 1..Len(c_fetched) : Origin(c_fetched[k]) = Origin(Rstrip(c_seed))

\* C14: each URL is fetched at most once per crawl, even when it is enqueued
\* several times or its fetch failed, and the pages (collected and returned)
\* have pairwise distinct URLs.
C14_FetchedOnce ==
    /\ \A k \in 1..Len(c_fetched) : Occurrences(c_fetched, c_fetched[k]) = 1
    /\ \A i, j \in 1..Len(c_pages) : i # j => c_pages[i].url # c_pages[j].url
    /\ c_pc = "returned" =>
          \A i, j \in 1..Len(c_result) : i # j => c_result[i].url # c_result[j].url

\* a URL that was enqueued twice has been fetched once, its fetch failed, and
\* its second copy is still in the queue of the running crawl
C14_Witness ==
    /\ c_pc = "loop"
    /\ Len(c_pages) < c_max
    /\ \E k \in 1..Len(c_queue) :
          /\ c_queue[k] \in ErrorUrls
          /\ c_queue[k] \notin PageUrls(c_pages)
          /\ Occurrences(c_fetched, c_queue[k]) = 1

\* C15: at every step the number of collected pages is at most max_pages, no
\* page is fetched when max_pages is 0, and the count of the crawl:done
\* event is the length of the returned list.
C15_PageBudget ==
    /\ Len(c_pages) <= c_max
    /\ c_max = 0 => c_fetched = <<>>
    /\ "crawl:done" \in {c_events[k].name : k \in 1..Len(c_events)} <=> c_pc = "returned"
    /\ c_pc = "returned" =>
          /\ c_events[Len(c_events)] = CEv("crawl:done", <<>>, Len(c_result))
          /\ Len(c_result) <= c_max

\* the budget, not the frontier, ended the crawl
C15_Witness ==
    /\ c_pc = "returned"
    /\ c_max > 0
    /\ Len(c_result) = c_max
    /\ c_queue # <<>>
    /\ c_events[Len(c_events)].count = c_max

\* C16: crawl_site terminates for every link graph, and it stops as soon as
\* the page budget is reached or the frontier is empty.
C16_Terminates ==
    /\ <>(c_pc = "returned")
    /\ [][(c_pc = "loop" /\ (c_queue = <<>> \/ Len(c_pages) >= c_max)) =>
            (c_pc' = "returned" /\ c_fetched' = c_fetched)]_vars

\* a crawl returned because its frontier ran empty, below the page budget,
\* after two pages were collected and a third fetch failed
C16_Witness ==
    /\ c_pc = "returned"
    /\ c_queue = <<>>
    /\ Len(c_result) < c_max
    /\ Len(c_result) >= 2
    /\ Len(c_fetched) > Len(c_result)
    /\ ErrorUrls # {}

\* C17 as stated: a URL for which crawl:error was emitted adds no page.
C17_FailedUrlAddsNoPage ==
    \A u \in ErrorUrls : u \notin PageUrls(c_pages)

\* C17, amended: a failure on one page emits crawl:error and does not abort
\* the crawl: the loop goes on with the rest of the queue, the pages
\* collected before stay, and the failed URL adds no page unless the failure
\* came after its page was appended and announced by crawl:page (a failure
\* while reading its links), in which case exactly that page is added.
C17_PageFailureIsLocal ==
    [][(Len(c_events') > Len(c_events) /\ c_events'[Len(c_events')].name = "crawl:error") =>
          LET u == c_events'[Len(c_events')].url IN
          /\ u = Head(c_queue)
          /\ c_pc' = "loop"
          /\ c_queue' = Tail(c_queue)
          /\ IsPrefix(c_pages, c_pages')
          /\ \/ /\ c_pages' = c_pages
                /\ c_events' = Append(c_events, CEv("crawl:error", u, 0))
             \/ /\ c_pages' = Append(c_pages, c_pages'[Len(c_pages')])
                /\ c_pages'[Len(c_pages')].url = u
                /\ c_events' = c_events \o <<CEv("crawl:page", u, Len(c_pages')),
                                              CEv("crawl:error", u, 0)>>]_vars

\* after a failed fetch the crawl went on and collected a later page
C17_Witness ==
    /\ c_pages # <<>>
    /\ \E e \in 1..Len(c_events), g \in 1..Len(c_events) :
          /\ e < g
          /\ c_events[e].name = "crawl:error"
          /\ c_events[e].url \notin PageUrls(c_pages)
          /\ c_events[g].name = "crawl:page"
    /\ c_events[1].name = "crawl:page"

(***************************************************************************)
(* discover_seed_url (src/main_agent.py 138-197)                           *)
(*                                                                         *)
(* A candidate is what the scoring reads of a provider result: whether its *)
(* domain contains a non-official keyword (line 152), whether it contains  *)
(* a brand-name token (157-158), whether its title has an "official"       *)
(* marker (162) and the depth of its path (165).  Its url is its position  *)
(* in the provider's answer (the provider returns distinct urls).  Scores  *)
(* are in halves, so that 0.5 * path_depth is an integer.                  *)
(***************************************************************************)
Features ==
    [blocked : BOOLEAN, token : BOOLEAN, official : BOOLEAN, depth : 0..MaxDepth]

\* a brand site, an unrelated site, a deep page with an official title and
\* a news site: scores 6.0, 1.0, 0.0 and -4.0
BrandSite == [blocked |-> FALSE, token |-> TRUE, official |-> FALSE, depth |-> 0]
PlainSite == [blocked |-> FALSE, token |-> FALSE, official |-> FALSE, depth |-> 1]
DeepOfficialPage == [blocked |-> FALSE, token |-> FALSE, official |-> TRUE, depth |-> 4]
NewsSite == [blocked |-> TRUE, token |-> FALSE, official |-> FALSE, depth |-> 1]
SampleFeatures == {BrandSite, PlainSite, DeepOfficialPage, NewsSite}

Meta(i, f) ==
    [url |-> i, blocked |-> f.blocked, token |-> f.token, official |-> f.official,
     depth |-> f.depth]
MetaLists(F, n) == {[i \in 1..Len(fs) |-> Meta(i, fs[i])] : fs \in SeqUpTo(F, n)}

\* lines 148-169, in halves
Score(c) ==
    (IF c.blocked THEN -10 ELSE 0)
    + (IF c.token THEN 10 ELSE 0)
    + (IF c.official THEN 4 ELSE 0)
    + (IF c.depth <= 1 THEN 2 ELSE -c.depth)

\* line 171
Scored(c) ==
    [url |-> c.url, blocked |-> c.blocked, token |-> c.token, official |-> c.official,
     depth |-> c.depth, score |-> Score(c)]

\* line 173: sorted(..., reverse=True) is stable, candidates of equal score
\* keep their order
SortRank(sm, i) ==
    1 + Cardinality({j \in 1..Len(sm) :
                       \/ sm[j].score > sm[i].score
                       \/ sm[j].score = sm[i].score /\ j < i})
SortedMetas(sm) ==
    [r \in 1..Len(sm) |-> sm[CHOOSE i \in 1..Len(sm) : SortRank(sm, i) = r]]

\* line 176: the loop runs over the first three
TopN == 3

Shortlist_All(sorted) == sorted

Shortlist(sorted) == FirstN(sorted, TopN)

\* line 192
HasFallback_NonNegative(sorted) == sorted # <<>> /\ sorted[1].score >= 0

HasFallback(sorted) == sorted # <<>> /\ sorted[1].score > 0

DiscoverInit ==
    /\ d_metas \in MetaLists(SampleFeatures, MaxCandidates)
    /\ d_pc = "start"
    /\ d_sorted = <<>> /\ d_k = 1 /\ d_fetched = <<>> /\ d_checked = <<>>
    /\ d_events = <<>> /\ d_result = NoValue
    \* run_research_v3 is not running
    /\ seed_url = "" /\ keywords = <<>> /\ competitor_list = <<>> /\ pc = "idle"
    /\ report = InitialReport /\ brand_hint = Unbound /\ found = "not_called"
    /\ names = <<>> /\ acc = <<>> /\ events = <<>> /\ stagelog = <<>>
    /\ caught = {} /\ written = <<>> /\ returned = NoValue
    \* provider_collect is not running
    /\ p_pref = "ddg" /\ p_qs = <<>> /\ p_thr = 0 /\ p_env = {} /\ p_mode = "none"
    /\ p_pc = "idle" /\ p_i = 1 /\ p_items = <<>> /\ p_seen = {}
    /\ p_primary = <<>> /\ p_events = <<>> /\ p_calls = <<>> /\ p_result = NoValue
    \* crawl_site is not running
    /\ c_seed = <<>> /\ c_max = 0 /\ c_base = <<>> /\ c_queue = <<>> /\ c_seen = {}
    /\ c_pages = <<>> /\ c_events = <<>> /\ c_fetched = <<>> /\ c_pc = "idle"
    /\ c_result = NoValue
    \* get_llm_response is not running
    /\ l_caller = "none" /\ l_use = FALSE /\ l_json = TRUE /\ l_max = 0
    /\ l_delay = 0
    /\ l_script = <<>> /\ l_attempt = 0 /\ l_calls = 0 /\ l_sleeps = <<>>
    /\ l_pc = "idle" /\ l_resp = NoValue /\ l_verdict = NoValue
    \* fetch_evidence and summarize_and_extract_insights are not running
    /\ e_use = FALSE /\ e_web = <<>> /\ e_docs = <<>> /\ e_llm = 0 /\ e_pc = "idle"
    /\ e_result = NoValue
    \* create_competitor_profile is not running
    /\ k_site = NoValue /\ k_aware = NoValue /\ k_image = NoValue
    /\ k_profile = NoValue /\ k_events = <<>> /\ k_pc = "idle" /\ k_result = NoValue
    \* analyze_price_range is not running
    /\ a_mode = "none" /\ a_web = <<>> /\ a_pages = <<>> /\ a_pc = "idle"
    /\ a_result = NoValue

\* the same call for a short candidate list with every combination of
\* domain, title and path depth
ScoreInit ==
    /\ d_metas \in MetaLists(Features, MaxScored)
    /\ d_pc = "start"
    /\ d_sorted = <<>> /\ d_k = 1 /\ d_fetched = <<>> /\ d_checked = <<>>
    /\ d_events = <<>> /\ d_result = NoValue
    \* run_research_v3 is not running
    /\ seed_url = "" /\ keywords = <<>> /\ competitor_list = <<>> /\ pc = "idle"
    /\ report = InitialReport /\ brand_hint = Unbound /\ found = "not_called"
    /\ names = <<>> /\ acc = <<>> /\ events = <<>> /\ stagelog = <<>>
    /\ caught = {} /\ written = <<>> /\ returned = NoValue
    \* provider_collect is not running
    /\ p_pref = "ddg" /\ p_qs = <<>> /\ p_thr = 0 /\ p_env = {} /\ p_mode = "none"
    /\ p_pc = "idle" /\ p_i = 1 /\ p_items = <<>> /\ p_seen = {}
    /\ p_primary = <<>> /\ p_events = <<>> /\ p_calls = <<>> /\ p_result = NoValue
    \* crawl_site is not running
    /\ c_seed = <<>> /\ c_max = 0 /\ c_base = <<>> /\ c_queue = <<>> /\ c_seen = {}
    /\ c_pages = <<>> /\ c_events = <<>> /\ c_fetched = <<>> /\ c_pc = "idle"
    /\ c_result = NoValue
    \* get_llm_response is not running
    /\ l_caller = "none" /\ l_use = FALSE /\ l_json = TRUE /\ l_max = 0
    /\ l_delay = 0
    /\ l_script = <<>> /\ l_attempt = 0 /\ l_calls = 0 /\ l_sleeps = <<>>
    /\ l_pc = "idle" /\ l_resp = NoValue /\ l_verdict = NoValue
    \* fetch_evidence and summarize_and_extract_insights are not running
    /\ e_use = FALSE /\ e_web = <<>> /\ e_docs = <<>> /\ e_llm = 0 /\ e_pc = "idle"
    /\ e_result = NoValue
    \* create_competitor_profile is not running
    /\ k_site = NoValue /\ k_aware = NoValue /\ k_image = NoValue
    /\ k_profile = NoValue /\ k_events = <<>> /\ k_pc = "idle" /\ k_result = NoValue
    \* analyze_price_range is not running
    /\ a_mode = "none" /\ a_web = <<>> /\ a_pages = <<>> /\ a_pc = "idle"
    /\ a_result = NoValue

\* lines 139-143; d_metas holds from the start the answer provider_collect
\* gives at line 142.  provider_collect can raise, and nothing catches it.
DS_Collect ==
    /\ d_pc = "start"
    /\ d_events' = Append(d_events, Ev("discover:start"))
    /\ \/ /\ d_pc' = "raised"
          /\ UNCHANGED d_result
       \/ IF d_metas = <<>>
          THEN d_result' = 0 /\ d_pc' = "returned"
          ELSE d_pc' = "score" /\ UNCHANGED d_result
    /\ UNCHANGED <<d_metas, d_sorted, d_k, d_fetched, d_checked>>
    /\ UNCHANGED outsideDiscover

\* lines 146-173
DS_Score ==
    /\ d_pc = "score"
    /\ d_sorted' = SortedMetas([i \in 1..Len(d_metas) |-> Scored(d_metas[i])])
    /\ d_k' = 1
    /\ d_pc' = "verify"
    /\ UNCHANGED <<d_metas, d_fetched, d_checked, d_events, d_result>>
    /\ UNCHANGED outsideDiscover

\* lines 176-178: a candidate of negative score is passed over
DS_SkipNegative ==
    /\ d_pc = "verify"
    /\ d_k <= Len(Shortlist(d_sorted))
    /\ d_sorted[d_k].score < 0
    /\ d_k' = d_k + 1
    /\ UNCHANGED <<d_metas, d_sorted, d_fetched, d_checked, d_events, d_pc, d_result>>
    /\ UNCHANGED outsideDiscover

\* lines 176-184: the candidate is fetched; it has no usable content, or
\* verify_official_site answers False; the loop goes on
DS_VerifyFails ==
    /\ d_pc = "verify"
    /\ d_k <= Len(Shortlist(d_sorted))
    /\ d_sorted[d_k].score >= 0
    /\ d_events' = Append(d_events, EvOf("discover:verify", d_sorted[d_k].url))
    /\ d_fetched' = Append(d_fetched, d_sorted[d_k].url)
    /\ \/ UNCHANGED d_checked
       \/ d_checked' = Append(d_checked, d_sorted[d_k].url)
    /\ d_k' = d_k + 1
    /\ UNCHANGED <<d_metas, d_sorted, d_pc, d_result>>
    /\ UNCHANGED outsideDiscover

\* lines 176-186: the candidate is fetched and verified, and returned
DS_VerifyOk ==
    /\ d_pc = "verify"
    /\ d_k <= Len(Shortlist(d_sorted))
    /\ d_sorted[d_k].score >= 0
    /\ d_events' = d_events \o <<EvOf("discover:verify", d_sorted[d_k].url),
                                  EvOf("discover:done", d_sorted[d_k].url)>>
    /\ d_fetched' = Append(d_fetched, d_sorted[d_k].url)
    /\ d_checked' = Append(d_checked, d_sorted[d_k].url)
    /\ d_result' = d_sorted[d_k].url
    /\ d_pc' = "returned"
    /\ UNCHANGED <<d_metas, d_sorted, d_k>>
    /\ UNCHANGED outsideDiscover

\* lines 190-197: no candidate verified; None is 0
DS_Fallback ==
    /\ d_pc = "verify"
    /\ d_k > Len(Shortlist(d_sorted))
    /\ IF HasFallback(d_sorted)
       THEN /\ d_events' = d_events \o <<Ev("discover:fail"),
                                          EvOf("discover:fallback", d_sorted[1].url)>>
            /\ d_result' = d_sorted[1].url
       ELSE /\ d_events' = Append(d_events, Ev("discover:fail"))
            /\ d_result' = 0
    /\ d_pc' = "returned"
    /\ UNCHANGED <<d_metas, d_sorted, d_k, d_fetched, d_checked>>
    /\ UNCHANGED outsideDiscover

DiscoverNext ==
    \/ DS_Collect \/ DS_Score \/ DS_SkipNegative \/ DS_VerifyFails \/ DS_VerifyOk
    \/ DS_Fallback

SpecDiscover == DiscoverInit /\ [][DiscoverNext]_vars

SpecScore == ScoreInit /\ [][DiscoverNext]_vars

(***************************************************************************)
(* Properties of discover_seed_url                                         *)
(***************************************************************************)
DEventNames == {d_events[k].name : k \in 1..Len(d_events)}
\* the candidates whose domain has a brand-name token and no non-official
\* keyword
BrandCandidates(ms) == {i \in 1..Len(ms) : ms[i].token /\ ~ms[i].blocked}
\* the score of the candidate with url u (its position in d_metas)
ScoreOfUrl(u) == Score(d_metas[u])
BestScore == CHOOSE b \in {Score(d_metas[i]) : i \in 1..Len(d_metas)} :
                \A i \in 1..Len(d_metas) : Score(d_metas[i]) <= b
EarliestBest == CHOOSE i \in 1..Len(d_metas) :
                   /\ Score(d_metas[i]) = BestScore
                   /\ \A j \in 1..(i - 1) : Score(d_metas[j]) < BestScore

\* C18: when exactly one candidate has a domain with a brand-name token and
\* no non-official keyword, its score is strictly greater than the score of
\* every candidate whose domain lacks the token, whatever the titles and
\* the path depths.
C18_BrandDomainOutranks ==
    \A i \in BrandCandidates(d_sorted) :
       Cardinality(BrandCandidates(d_sorted)) = 1 =>
          \A j \in 1..Len(d_sorted) :
             ~d_sorted[j].token => d_sorted[i].score > d_sorted[j].score

\* C19: only candidates among the three highest-scoring ones are fetched or
\* verified, never one of negative score, in descending score order (the
\* order of the sorted list), every verified candidate was fetched, and a
\* candidate that verifies is returned at once: it is the last one fetched
\* and verified.
C19_VerifiesTopThree ==
    /\ Len(d_fetched) <= 3
    /\ \A k \in 1..Len(d_fetched) :
          /\ ScoreOfUrl(d_fetched[k]) >= 0
          /\ Cardinality({j \in 1..Len(d_metas) :
                            Score(d_metas[j]) > ScoreOfUrl(d_fetched[k])}) < 3
          /\ \E r \in 1..Len(d_sorted) : r <= 3 /\ d_sorted[r].url = d_fetched[k]
    /\ \A k, l \in 1..Len(d_fetched) :
          k < l => /\ ScoreOfUrl(d_fetched[k]) >= ScoreOfUrl(d_fetched[l])
                   /\ d_fetched[k] # d_fetched[l]
                   /\ \E r, t \in 1..Len(d_sorted) :
                         r < t /\ d_sorted[r].url = d_fetched[k]
                               /\ d_sorted[t].url = d_fetched[l]
    /\ \A k \in 1..Len(d_checked) : \E l \in 1..Len(d_fetched) : d_fetched[l] = d_checked[k]
    /\ "discover:done" \in DEventNames =>
          /\ d_pc = "returned"
          /\ d_result = d_fetched[Len(d_fetched)]
          /\ d_result = d_checked[Len(d_checked)]
          /\ d_events[Len(d_events)] = EvOf("discover:done", d_result)

\* of four candidates of non-negative score the first did not verify, the
\* second did and was returned; the third was never fetched
C19_Witness ==
    /\ d_pc = "returned"
    /\ Len(d_metas) = 4
    /\ \A i \in 1..4 : Score(d_metas[i]) >= 0
    /\ Len(d_fetched) = 2
    /\ Len(d_checked) = 2
    /\ d_result = d_fetched[2]
    /\ d_result = d_sorted[2].url

\* C20: when no candidate verifies, the call returns the highest-scoring
\* candidate, the earliest of the provider's answer among equal scores, if
\* its score is strictly positive, and None (0) otherwise: also when the
\* provider returned nothing and when the best score is exactly 0.
C20_FallbackToBest ==
    (d_pc = "returned" /\ "discover:done" \notin DEventNames) =>
       IF d_metas = <<>> THEN d_result = 0
       ELSE IF BestScore > 0 THEN d_result = d_metas[EarliestBest].url
       ELSE d_result = 0

\* two candidates share the best, positive, score; both were fetched, none
\* verified, and the earlier one is returned
C20_Witness ==
    /\ d_pc = "returned"
    /\ "discover:fallback" \in DEventNames
    /\ Len(d_fetched) >= 2
    /\ BestScore > 0
    /\ \E j \in 1..Len(d_metas) : j > EarliestBest /\ Score(d_metas[j]) = BestScore
    /\ EarliestBest > 1
    /\ d_result = d_metas[EarliestBest].url

(***************************************************************************)
(* get_llm_response and verify_official_site (src/modules/llm_services.py) *)
(***************************************************************************)
\* What one call of model.generate_content can do:
\*   transient, permanent  it raises, with or without one of the words of
\*                         retryable_errors (76-79) in its message
\*   empty                 response.text is empty (41-42)
\*   no_json               the text holds no {...} (46, 63)
\*   bad_json              the {...} is not JSON even after the repair
\*                         (50-58); the JSONDecodeError message names a
\*                         position, which can hold "500" (bad_json_5xx)
\*   json_*                a JSON object: is_official true, false, absent,
\*                         not a boolean, or true next to a non-empty "error"
RaisingOutcomes == {"transient", "permanent", "empty"}
UnparsedOutcomes == {"no_json", "bad_json", "bad_json_5xx"}
JsonOutcomes == {"json_yes", "json_no", "json_missing", "json_nonbool", "json_yes_error"}
Outcomes == RaisingOutcomes \cup UnparsedOutcomes \cup JsonOutcomes

\* line 13: the defaults of max_retries and retry_delay
DefaultMaxRetries == 3
RetryDelay == 1

\* the values get_llm_response returns
Response(kind, err, off, raw) == [kind |-> kind, error |-> err, is_official |-> off, raw |-> raw]
\* line 17
NotConfigured(json) ==
    IF json THEN Response("error", TRUE, "missing", FALSE)
    ELSE Response("error_text", FALSE, "missing", FALSE)
\* lines 49 and 57
JsonAnswer(o) ==
    Response("json", o = "json_yes_error",
             CASE o \in {"json_yes", "json_yes_error"} -> "true"
               [] o = "json_no" -> "false"
               [] o = "json_nonbool" -> "nonbool"
               [] OTHER -> "missing",
             FALSE)
\* lines 60 and 65: the error object of the last attempt, with raw_response
ParseError == Response("error", TRUE, "missing", TRUE)
\* line 69
TextAnswer == Response("text", FALSE, "missing", FALSE)
Exhausted_AlwaysDict(json) == Response("error", TRUE, "missing", FALSE)
\* lines 94-95
Exhausted(json) ==
    IF json THEN Response("error", TRUE, "missing", FALSE)
    ELSE Response("error_text", FALSE, "missing", FALSE)

IsRetryable_Always(o) == TRUE
\* lines 76-81: the message of the exception holds a retryable word
IsRetryable(o) == o \in {"transient", "bad_json_5xx"}

\* the attempt ends in the handler at line 71
EndsInHandler(o, json, attempt, max) ==
    \/ o \in RaisingOutcomes
    \/ json /\ o \in UnparsedOutcomes /\ attempt # max - 1

\* the value an attempt returns when it does not end in the handler
AttemptReturn(o, json) ==
    IF ~json THEN TextAnswer
    ELSE IF o \in UnparsedOutcomes THEN ParseError
    ELSE JsonAnswer(o)

\* verify_official_site, line 148
Affirmative(resp) ==
    resp.kind = "json" /\ ~resp.error /\ resp.is_official = "true"

\* verify_official_site called with the default max_retries
VerifyInit ==
    /\ l_caller = "verify_official_site"
    /\ l_use \in BOOLEAN
    /\ l_json = TRUE
    /\ l_max = DefaultMaxRetries
    /\ l_delay = RetryDelay
    /\ l_script \in [1..DefaultMaxRetries -> Outcomes]
    /\ l_attempt = 0 /\ l_calls = 0 /\ l_sleeps = <<>>
    /\ l_pc = "start" /\ l_resp = NoValue /\ l_verdict = NoValue
    \* run_research_v3 is not running
    /\ seed_url = "" /\ keywords = <<>> /\ competitor_list = <<>> /\ pc = "idle"
    /\ report = InitialReport /\ brand_hint = Unbound /\ found = "not_called"
    /\ names = <<>> /\ acc = <<>> /\ events = <<>> /\ stagelog = <<>>
    /\ caught = {} /\ written = <<>> /\ returned = NoValue
    \* provider_collect is not running
    /\ p_pref = "ddg" /\ p_qs = <<>> /\ p_thr = 0 /\ p_env = {} /\ p_mode = "none"
    /\ p_pc = "idle" /\ p_i = 1 /\ p_items = <<>> /\ p_seen = {}
    /\ p_primary = <<>> /\ p_events = <<>> /\ p_calls = <<>> /\ p_result = NoValue
    \* crawl_site is not running
    /\ c_seed = <<>> /\ c_max = 0 /\ c_base = <<>> /\ c_queue = <<>> /\ c_seen = {}
    /\ c_pages = <<>> /\ c_events = <<>> /\ c_fetched = <<>> /\ c_pc = "idle"
    /\ c_result = NoValue
    \* discover_seed_url is not running
    /\ d_metas = <<>> /\ d_sorted = <<>> /\ d_k = 1 /\ d_fetched = <<>>
    /\ d_checked = <<>> /\ d_events = <<>> /\ d_pc = "idle" /\ d_result = NoValue
    \* fetch_evidence and summarize_and_extract_insights are not running
    /\ e_use = FALSE /\ e_web = <<>> /\ e_docs = <<>> /\ e_llm = 0 /\ e_pc = "idle"
    /\ e_result = NoValue
    \* create_competitor_profile is not running
    /\ k_site = NoValue /\ k_aware = NoValue /\ k_image = NoValue
    /\ k_profile = NoValue /\ k_events = <<>> /\ k_pc = "idle" /\ k_result = NoValue
    \* analyze_price_range is not running
    /\ a_mode = "none" /\ a_web = <<>> /\ a_pages = <<>> /\ a_pc = "idle"
    /\ a_result = NoValue

\* verify_official_site, lines 128-145: without USE_LLM the answer is True
VO_Call ==
    /\ l_pc = "start"
    /\ l_caller = "verify_official_site"
    /\ IF ~l_use
       THEN l_verdict' = TRUE /\ l_pc' = "returned"
       ELSE l_pc' = "llm_start" /\ UNCHANGED l_verdict
    /\ UNCHANGED <<l_caller, l_use, l_json, l_max, l_delay, l_script, l_attempt, l_calls,
                   l_sleeps, l_resp>>
    /\ UNCHANGED outsideLlm

\* get_llm_response, lines 16-20
GL_Begin ==
    /\ l_pc = "llm_start"
    /\ IF ~l_use
       THEN l_resp' = NotConfigured(l_json) /\ l_pc' = "llm_returned"
       ELSE l_pc' = "llm_loop" /\ UNCHANGED l_resp
    /\ l_attempt' = 0
    /\ UNCHANGED <<l_caller, l_use, l_json, l_max, l_delay, l_script, l_calls, l_sleeps,
                   l_verdict>>
    /\ UNCHANGED outsideLlm

\* lines 20-91: one iteration of the loop
GL_Attempt ==
    /\ l_pc = "llm_loop"
    /\ l_attempt < l_max
    /\ l_calls' = l_calls + 1
    /\ LET o == l_script[l_attempt + 1] IN
       IF ~EndsInHandler(o, l_json, l_attempt, l_max)
       THEN /\ l_resp' = AttemptReturn(o, l_json)
            /\ l_pc' = "llm_returned"
            /\ UNCHANGED <<l_attempt, l_sleeps>>
       ELSE IF l_attempt < l_max - 1 /\ IsRetryable(o)
       THEN /\ l_sleeps' = Append(l_sleeps, l_delay * (2 ^ l_attempt))
            /\ l_attempt' = l_attempt + 1
            /\ UNCHANGED <<l_resp, l_pc>>
       ELSE /\ l_pc' = "llm_failed"
            /\ UNCHANGED <<l_attempt, l_sleeps, l_resp>>
    /\ UNCHANGED <<l_caller, l_use, l_json, l_max, l_delay, l_script, l_verdict>>
    /\ UNCHANGED outsideLlm

\* lines 93-95: the loop was left by break, or never ran
GL_GiveUp ==
    /\ \/ l_pc = "llm_failed"
       \/ l_pc = "llm_loop" /\ l_attempt >= l_max
    /\ l_resp' = Exhausted(l_json)
    /\ l_pc' = "llm_returned"
    /\ UNCHANGED <<l_caller, l_use, l_json, l_max, l_delay, l_script, l_attempt, l_calls,
                   l_sleeps, l_verdict>>
    /\ UNCHANGED outsideLlm

\* verify_official_site, lines 145-151
VO_Return ==
    /\ l_pc = "llm_returned"
    /\ l_caller = "verify_official_site"
    /\ l_verdict' = Affirmative(l_resp)
    /\ l_pc' = "returned"
    /\ UNCHANGED <<l_caller, l_use, l_json, l_max, l_delay, l_script, l_attempt, l_calls,
                   l_sleeps, l_resp>>
    /\ UNCHANGED outsideLlm

VerifyNext == VO_Call \/ GL_Begin \/ GL_Attempt \/ GL_GiveUp \/ VO_Return

SpecVerify == VerifyInit /\ [][VerifyNext]_vars

\* C21: verify_official_site returns True only on an explicit affirmative of
\* the LLM (an answer with is_official true and no error); in every other
\* case, an unavailable LLM included, it returns False.
C21_OnlyExplicitAffirmative ==
    l_pc = "returned" =>
       (l_verdict <=> /\ l_calls >= 1
                      /\ l_script[l_calls] = "json_yes")

(***************************************************************************)
(* fetch_evidence (src/main_agent.py) and summarize_and_extract_insights   *)
(* (src/modules/llm_services.py), as get_market_awareness chains them.     *)
(* Texts are modelled by their lengths.                                    *)
(***************************************************************************)
MaxDocs == 2

\* main_agent.py line 48 and llm_services.py line 155
MinEvidenceLength == 150
MIN_TEXT_LENGTH == 2000

\* the metas provider_collect hands over
EvidenceMetas == {[url |-> 1, title |-> "a"], [url |-> 2, title |-> "b"]}

\* lengths of the text extract_text returns, around both thresholds
TextLengths == {0, 149, 150, 1849, 1850, 1999, 2000}

\* What the web does for one meta: fetch raises, extract_text raises, or
\* extract_text returns a text of len characters of which _clean removes ws
\* (surrounding and repeated white space).
WebOutcome(meta, outcome, len, ws) == [meta |-> meta, outcome |-> outcome, len |-> len, ws |-> ws]
WebOutcomes ==
    {WebOutcome(m, o, 0, 0) : m \in EvidenceMetas, o \in {"fetch_raises", "extract_raises"}}
    \cup {WebOutcome(m, "text", n, w) : m \in EvidenceMetas, n \in TextLengths, w \in {0, 1}}

\* utils.py, _clean: the length of the cleaned text
Clean(w) == IF w.ws <= w.len THEN w.len - w.ws ELSE 0

\* {**meta, "content": ..., "error": ...}; error "none" is a record without
\* the key
Doc(meta, content, error) ==
    [url |-> meta.url, title |-> meta.title, content |-> content, error |-> error]

IsShort_Inclusive(len) == len = 0 \/ len <= MinEvidenceLength
\* line 48: not text or len(text) < 150
IsShort(len) == len = 0 \/ len < MinEvidenceLength

\* lines 47-49, the body of the try
TryBody(w) ==
    IF w.outcome # "text" THEN Doc(w.meta, 0, "raised")
    ELSE IF IsShort(w.len) THEN Doc(w.meta, 0, "short")
    ELSE Doc(w.meta, Clean(w), "none")

\* lines 50-51
ErrorRecord(meta) == Doc(meta, 0, "exception")

FetchEvidence_NoHandler(w) == TryBody(w)
\* lines 45-51
FetchEvidence(w) ==
    LET r == TryBody(w) IN
    IF r.error = "raised" THEN ErrorRecord(w.meta) ELSE r

\* llm_services.py line 157: len("".join(contents))
RECURSIVE TotalLength(_)
TotalLength(docs) ==
    IF docs = <<>> THEN 0 ELSE Head(docs).content + TotalLength(Tail(docs))

IsInsufficient_Inclusive(total) == total <= MIN_TEXT_LENGTH
\* line 159
IsInsufficient(total) == total < MIN_TEXT_LENGTH

\* the results of summarize_and_extract_insights
\* (an insight is modelled by the value of its "insight" key: "sentinel" for
\* the text of line 165, "missing" when the key is absent)
Analysis(error, insights, bullets, sources) ==
    [error |-> error, insights |-> insights, summary_bullets |-> bullets,
     collected_sources |-> sources]
\* lines 160-171
InsufficientData(docs) ==
    Analysis("InsufficientData", <<"sentinel">>, <<>>,
             [k \in 1..Len(docs) |-> docs[k].url])
\* line 174
EmptyAnalysis == Analysis("none", <<>>, <<>>, <<>>)
\* line 206: what get_llm_response gives back
LlmAnalyses ==
    {Analysis("llm", <<>>, <<>>, <<>>), Analysis("none", <<>>, <<>>, <<>>),
     Analysis("none", <<"insight">>, <<"bullet">>, <<>>),
     Analysis("none", <<"missing">>, <<>>, <<>>),
     Analysis("none", <<>>, <<"bullet">>, <<>>)}

EvidenceInit ==
    /\ e_use \in BOOLEAN
    /\ e_web \in {w \in SeqUpTo(WebOutcomes, MaxDocs) : Len(w) >= 1}
    /\ e_docs = <<>> /\ e_llm = 0 /\ e_pc = "fetch" /\ e_result = NoValue
    \* run_research_v3 is not running
    /\ seed_url = "" /\ keywords = <<>> /\ competitor_list = <<>> /\ pc = "idle"
    /\ report = InitialReport /\ brand_hint = Unbound /\ found = "not_called"
    /\ names = <<>> /\ acc = <<>> /\ events = <<>> /\ stagelog = <<>>
    /\ caught = {} /\ written = <<>> /\ returned = NoValue
    \* provider_collect is not running
    /\ p_pref = "ddg" /\ p_qs = <<>> /\ p_thr = 0 /\ p_env = {} /\ p_mode = "none"
    /\ p_pc = "idle" /\ p_i = 1 /\ p_items = <<>> /\ p_seen = {}
    /\ p_primary = <<>> /\ p_events = <<>> /\ p_calls = <<>> /\ p_result = NoValue
    \* crawl_site is not running
    /\ c_seed = <<>> /\ c_max = 0 /\ c_base = <<>> /\ c_queue = <<>> /\ c_seen = {}
    /\ c_pages = <<>> /\ c_events = <<>> /\ c_fetched = <<>> /\ c_pc = "idle"
    /\ c_result = NoValue
    \* discover_seed_url is not running
    /\ d_metas = <<>> /\ d_sorted = <<>> /\ d_k = 1 /\ d_fetched = <<>>
    /\ d_checked = <<>> /\ d_events = <<>> /\ d_pc = "idle" /\ d_result = NoValue
    \* get_llm_response is not running
    /\ l_caller = "none" /\ l_use = FALSE /\ l_json = TRUE /\ l_max = 0
    /\ l_delay = 0
    /\ l_script = <<>> /\ l_attempt = 0 /\ l_calls = 0 /\ l_sleeps = <<>>
    /\ l_pc = "idle" /\ l_resp = NoValue /\ l_verdict = NoValue
    \* create_competitor_profile is not running
    /\ k_site = NoValue /\ k_aware = NoValue /\ k_image = NoValue
    /\ k_profile = NoValue /\ k_events = <<>> /\ k_pc = "idle" /\ k_result = NoValue
    \* analyze_price_range is not running
    /\ a_mode = "none" /\ a_web = <<>> /\ a_pages = <<>> /\ a_pc = "idle"
    /\ a_result = NoValue

\* main_agent.py line 217: docs = [fetch_evidence(m) for m in metas]
FE_Fetch ==
    /\ e_pc = "fetch"
    /\ Len(e_docs) < Len(e_web)
    /\ e_docs' = Append(e_docs, FetchEvidence(e_web[Len(e_docs) + 1]))
    /\ UNCHANGED <<e_use, e_web, e_llm, e_pc, e_result>>
    /\ UNCHANGED outsideEvidence

\* llm_services.py lines 153-174
SI_Check ==
    /\ e_pc = "fetch"
    /\ Len(e_docs) = Len(e_web)
    /\ IF IsInsufficient(TotalLength(e_docs))
       THEN e_result' = InsufficientData(e_docs) /\ e_pc' = "done"
       ELSE IF ~e_use \/ e_docs = <<>>
       THEN e_result' = EmptyAnalysis /\ e_pc' = "done"
       ELSE e_pc' = "llm" /\ UNCHANGED e_result
    /\ UNCHANGED <<e_use, e_web, e_docs, e_llm>>
    /\ UNCHANGED outsideEvidence

\* lines 176-206: return get_llm_response(prompt)
SI_Llm ==
    /\ e_pc = "llm"
    /\ e_llm' = e_llm + 1
    /\ \E r \in LlmAnalyses : e_result' = r
    /\ e_pc' = "done"
    /\ UNCHANGED <<e_use, e_web, e_docs>>
    /\ UNCHANGED outsideEvidence

EvidenceNext == FE_Fetch \/ SI_Check \/ SI_Llm

SpecEvidence == EvidenceInit /\ [][EvidenceNext]_vars

\* C22: fetch_evidence answers error "short" with empty content exactly when
\* the extracted text is empty or shorter than 150 characters; a text of 149
\* characters is rejected and one of 150 is accepted.
C22_ShortExactlyBelow150 ==
    \A k \in 1..Len(e_docs) :
       /\ e_docs[k].error = "short" <=>
             (e_web[k].outcome = "text" /\ e_web[k].len < 150)
       /\ e_docs[k].error = "short" => e_docs[k].content = 0
       /\ (e_web[k].outcome = "text" /\ e_web[k].len = 149) => e_docs[k].error = "short"
       /\ (e_web[k].outcome = "text" /\ e_web[k].len = 150) => e_docs[k].error = "none"

\* a text of 149 characters was rejected and one of 150 accepted
C22_Witness ==
    /\ Len(e_docs) = 2
    /\ e_web[1].outcome = "text" /\ e_web[1].len = 149 /\ e_docs[1].error = "short"
    /\ e_web[2].outcome = "text" /\ e_web[2].len = 150 /\ e_docs[2].error = "none"

\* the total content length, from the web outcomes
RECURSIVE AcceptedLength(_)
AcceptedLength(web) ==
    IF web = <<>> THEN 0
    ELSE (IF Head(web).outcome = "text" /\ Head(web).len >= 150
          THEN Head(web).len - Head(web).ws ELSE 0) + AcceptedLength(Tail(web))

\* C23: summarize_and_extract_insights returns the InsufficientData result
\* exactly when the total content length is below 2000 (1999 rejected, 2000
\* accepted); the result has one sentinel insight and the URLs of all the
\* documents in order, and the LLM is not called.
C23_InsufficientExactlyBelow2000 ==
    e_pc = "done" =>
       /\ e_result.error = "InsufficientData" <=> AcceptedLength(e_web) < 2000
       /\ AcceptedLength(e_web) = 1999 => e_result.error = "InsufficientData"
       /\ AcceptedLength(e_web) = 2000 => e_result.error # "InsufficientData"
       /\ e_result.error = "InsufficientData" =>
             /\ e_result.insights = <<"sentinel">>
             /\ e_result.collected_sources = [k \in 1..Len(e_web) |-> e_web[k].meta.url]
             /\ e_llm = 0

\* two documents of 1999 characters in all were rejected
C23_Witness ==
    /\ e_pc = "done"
    /\ Len(e_web) = 2
    /\ e_docs[1].content > 0 /\ e_docs[2].content > 0
    /\ e_docs[1].url # e_docs[2].url
    /\ AcceptedLength(e_web) = 1999
    /\ e_result.error = "InsufficientData"

\* C24: fetch_evidence never raises; a failure of the fetch or of the text
\* extraction gives a record with the fields of the meta, empty content and
\* the error reason.
C24_FailureBecomesRecord ==
    \A k \in 1..Len(e_docs) :
       e_web[k].outcome \in {"fetch_raises", "extract_raises"} =>
          /\ e_docs[k].url = e_web[k].meta.url
          /\ e_docs[k].title = e_web[k].meta.title
          /\ e_docs[k].content = 0
          /\ e_docs[k].error = "exception"

\* the fetch failed for one meta, the extraction for the next
C24_Witness ==
    /\ Len(e_docs) = 2
    /\ e_web[1].outcome = "fetch_raises" /\ e_web[2].outcome = "extract_raises"
    /\ e_docs[1].error = "exception" /\ e_docs[2].error = "exception"
    /\ e_docs[1].url # e_docs[2].url

(***************************************************************************)
(* run_research_v3: properties of the competitor stage (lines 390-414)     *)
(***************************************************************************)
\* the competitor:start and competitor:done events, in order
CompetitorEvents ==
    SelectSeq(events, LAMBDA e : e.name \in {"competitor:start", "competitor:done"})
StartedNames ==
    LET st == SelectSeq(events, LAMBDA e : e.name = "competitor:start")
    IN  [k \in 1..Len(st) |-> st[k].arg]

\* C25: when the sub-pipeline of one competitor out of n raises, that
\* competitor is skipped: competitor_profiles ends with the n-1 other
\* profiles, a progress event records the skipped name, and the comparison
\* synthesis runs over the survivors.
C25_FailedCompetitorSkipped ==
    (pc = "returned" /\ "competitor_batch" \in caught) =>
       /\ Len(report["competitor_profiles"]) = Len(names) - 1
       /\ \E k \in 1..Len(events) :
             events[k].name = "competitor:error" /\ events[k].arg \in Range(names)
       /\ "comparison_synthesis" \in Range(stagelog)

\* C28: generate_comparison_table is attempted only if at least one
\* competitor profile was produced.
C28_NoSynthesisWithoutProfiles ==
    report["competitor_comparison_table"] \in TableResults =>
       Len(report["competitor_profiles"]) >= 1

\* C29: the names processed are the ontology-derived competitor names when
\* that list is non-empty and otherwise exactly the user-supplied
\* competitor_list; no competitor is processed when both are empty, or when
\* the crawl+profile stage failed and the user list is empty.
C29_NamesFromOntologyElseUser ==
    /\ "competitor_batch" \in Range(stagelog) =>
          /\ report["ontology"].competitors # <<>> =>
                names = report["ontology"].competitors
          /\ report["ontology"].competitors = <<>> => names = competitor_list
          /\ IsPrefix(StartedNames, names)
    /\ "competitor_batch" \notin Range(stagelog) => StartedNames = <<>>
    /\ ("crawl+profile" \in caught /\ competitor_list = <<>>) => StartedNames = <<>>
    /\ (report["ontology"].competitors = <<>> /\ competitor_list = <<>>) =>
          StartedNames = <<>>

\* both lists were non-empty and every ontology name was processed
C29_Witness ==
    /\ pc = "returned"
    /\ competitor_list # <<>>
    /\ Len(report["ontology"].competitors) = 2
    /\ StartedNames = report["ontology"].competitors

\* C30: the competitors are processed one after another in the order of the
\* name list: the start event of a name comes after the done event of the
\* name before it, and competitor_profiles[i] is the profile of the i-th name.
C30_SequentialInOrder ==
    /\ \A k \in 1..Len(CompetitorEvents) :
          /\ k % 2 = 1 => /\ CompetitorEvents[k].name = "competitor:start"
                          /\ (k + 1) \div 2 <= Len(names)
                          /\ CompetitorEvents[k].arg = names[(k + 1) \div 2]
          /\ k % 2 = 0 => /\ CompetitorEvents[k].name = "competitor:done"
                          /\ CompetitorEvents[k].arg = names[k \div 2]
    /\ \A i \in 1..Len(acc) : acc[i].brand = names[i]
    /\ \A i \in 1..Len(report["competitor_profiles"]) :
          report["competitor_profiles"][i].brand = names[i]

\* two competitors were processed and their profiles stored
C30_Witness ==
    /\ Len(names) = 2
    /\ Len(report["competitor_profiles"]) = 2
    /\ Len(CompetitorEvents) = 4

(***************************************************************************)
(* create_competitor_profile, get_market_awareness and get_consumer_image  *)
(* (src/main_agent.py)                                                     *)
(***************************************************************************)
\* What the site stage (lines 264-287) meets:
\*   url_raises, no_url       discover_seed_url raises or finds nothing
\*   crawl_raises, no_pages   crawl_site or brand_profile_from_pages raises,
\*                            or the crawl returns no page
\*   profile_error            the profile is empty or carries "error"
\*   profile_ok               a profile without error
\*   profile_odd              a profile without error whose key_messages is
\*                            not a list: the subscript at line 293 raises
SiteOutcomes == {"url_raises", "no_url", "crawl_raises", "no_pages", "profile_error",
                 "profile_ok", "profile_odd"}

\* What an analysis (provider_collect, fetch_evidence,
\* summarize_and_extract_insights) meets: it raises, the search finds no
\* meta, or summarize_and_extract_insights returns.
Gathered(outcome, analysis) == [outcome |-> outcome, analysis |-> analysis]
Gatherings ==
    {Gathered(o, EmptyAnalysis) : o \in {"raises", "no_metas"}}
    \cup {Gathered("analysed", a) :
             a \in LlmAnalyses \cup {EmptyAnalysis}
                   \cup {InsufficientData(<<ErrorRecord(m)>>) : m \in EvidenceMetas}}

\* get_market_awareness, lines 214-218
NoNews == Analysis("no_news", <<>>, <<>>, <<>>)
GetMarketAwareness(g) == IF g.outcome = "no_metas" THEN NoNews ELSE g.analysis

\* get_consumer_image, lines 224-227
FirstInsight(a) == IF a.insights # <<>> THEN a.insights[1] ELSE ""
FirstBullet(a) == IF a.summary_bullets # <<>> THEN a.summary_bullets[1] ELSE ""
GetConsumerImage(g) ==
    IF g.outcome = "no_metas" THEN "hard_to_grasp"
    ELSE IF FirstInsight(g.analysis) \in {"", "missing"} THEN FirstBullet(g.analysis)
    ELSE FirstInsight(g.analysis)

\* lines 253-262
DefaultProfile ==
    [brand |-> 1, site_fields |-> FALSE, market_awareness |-> "unknown",
     consumer_image |-> "unknown", data_quality |-> "minimal"]

\* lines 307-308 and 317-318
RaiseQuality(q) == IF q = "minimal" THEN "partial" ELSE q

\* lines 274-286: the progress event of the site stage
SiteEvent(o) ==
    CASE o = "url_raises" -> "competitor:url_error"
      [] o = "no_url" -> "competitor:no_url"
      [] o = "crawl_raises" -> "competitor:crawl_error"
      [] o = "no_pages" -> "competitor:no_pages"
      [] o = "profile_error" -> "competitor:site_analysis_failed"
      [] OTHER -> "competitor:site_analyzed"

\* line 303: insights[0].get("insight", default)
AwarenessText(a) == IF FirstInsight(a) = "missing" THEN "unknown" ELSE FirstInsight(a)

CompetitorInit ==
    /\ k_site \in SiteOutcomes
    /\ k_aware \in Gatherings
    /\ k_image \in Gatherings
    /\ k_profile = DefaultProfile
    /\ k_events = <<>> /\ k_pc = "site" /\ k_result = NoValue
    \* run_research_v3 is not running
    /\ seed_url = "" /\ keywords = <<>> /\ competitor_list = <<>> /\ pc = "idle"
    /\ report = InitialReport /\ brand_hint = Unbound /\ found = "not_called"
    /\ names = <<>> /\ acc = <<>> /\ events = <<>> /\ stagelog = <<>>
    /\ caught = {} /\ written = <<>> /\ returned = NoValue
    \* provider_collect is not running
    /\ p_pref = "ddg" /\ p_qs = <<>> /\ p_thr = 0 /\ p_env = {} /\ p_mode = "none"
    /\ p_pc = "idle" /\ p_i = 1 /\ p_items = <<>> /\ p_seen = {}
    /\ p_primary = <<>> /\ p_events = <<>> /\ p_calls = <<>> /\ p_result = NoValue
    \* crawl_site is not running
    /\ c_seed = <<>> /\ c_max = 0 /\ c_base = <<>> /\ c_queue = <<>> /\ c_seen = {}
    /\ c_pages = <<>> /\ c_events = <<>> /\ c_fetched = <<>> /\ c_pc = "idle"
    /\ c_result = NoValue
    \* discover_seed_url is not running
    /\ d_metas = <<>> /\ d_sorted = <<>> /\ d_k = 1 /\ d_fetched = <<>>
    /\ d_checked = <<>> /\ d_events = <<>> /\ d_pc = "idle" /\ d_result = NoValue
    \* get_llm_response is not running
    /\ l_caller = "none" /\ l_use = FALSE /\ l_json = TRUE /\ l_max = 0
    /\ l_delay = 0
    /\ l_script = <<>> /\ l_attempt = 0 /\ l_calls = 0 /\ l_sleeps = <<>>
    /\ l_pc = "idle" /\ l_resp = NoValue /\ l_verdict = NoValue
    \* fetch_evidence and summarize_and_extract_insights are not running
    /\ e_use = FALSE /\ e_web = <<>> /\ e_docs = <<>> /\ e_llm = 0 /\ e_pc = "idle"
    /\ e_result = NoValue
    \* analyze_price_range is not running
    /\ a_mode = "none" /\ a_web = <<>> /\ a_pages = <<>> /\ a_pc = "idle"
    /\ a_result = NoValue

\* lines 250-297: competitor:start, the site stage, the profile update
K_Site ==
    /\ k_pc = "site"
    /\ k_events' = <<Ev("competitor:start"), Ev(SiteEvent(k_site))>>
    /\ IF k_site \in {"profile_ok", "profile_odd"}
       THEN /\ k_profile' = [k_profile EXCEPT !.data_quality = "good",
                                               !.site_fields = (k_site = "profile_ok")]
            /\ k_pc' = IF k_site = "profile_odd" THEN "raised" ELSE "awareness"
       ELSE /\ k_pc' = "awareness"
            /\ UNCHANGED k_profile
    /\ UNCHANGED <<k_site, k_aware, k_image, k_result>>
    /\ UNCHANGED outsideCompetitor

\* lines 300-309: market awareness
K_Awareness ==
    /\ k_pc = "awareness"
    /\ IF k_aware.outcome = "raises"
       THEN /\ k_events' = Append(k_events, Ev("competitor:awareness_error"))
            /\ UNCHANGED k_profile
       ELSE LET a == GetMarketAwareness(k_aware) IN
            /\ IF a.error = "none" /\ a.insights # <<>>
               THEN k_profile' = [k_profile EXCEPT
                                     !.market_awareness = AwarenessText(a),
                                     !.data_quality = RaiseQuality(@)]
               ELSE UNCHANGED k_profile
            /\ UNCHANGED k_events
    /\ k_pc' = "image"
    /\ UNCHANGED <<k_site, k_aware, k_image, k_result>>
    /\ UNCHANGED outsideCompetitor

\* lines 312-319: consumer image
K_Image ==
    /\ k_pc = "image"
    /\ IF k_image.outcome = "raises"
       THEN /\ k_events' = Append(k_events, Ev("competitor:consumer_image_error"))
            /\ UNCHANGED k_profile
       ELSE LET img == GetConsumerImage(k_image) IN
            /\ IF img # "" /\ img # "hard_to_grasp"
               THEN k_profile' = [k_profile EXCEPT
                                     !.consumer_image = img,
                                     !.data_quality = RaiseQuality(@)]
               ELSE UNCHANGED k_profile
            /\ UNCHANGED k_events
    /\ k_pc' = "return"
    /\ UNCHANGED <<k_site, k_aware, k_image, k_result>>
    /\ UNCHANGED outsideCompetitor

\* lines 321-322
K_Return ==
    /\ k_pc = "return"
    /\ k_events' = Append(k_events, Ev("competitor:done"))
    /\ k_result' = k_profile
    /\ k_pc' = "returned"
    /\ UNCHANGED <<k_site, k_aware, k_image, k_profile>>
    /\ UNCHANGED outsideCompetitor

CompetitorNext == K_Site \/ K_Awareness \/ K_Image \/ K_Return

SpecCompetitor == CompetitorInit /\ [][CompetitorNext]_vars

\* the three stages, judged from what they met
SiteSucceeded == k_site \in {"profile_ok", "profile_odd"}
AwarenessSucceeded ==
    /\ k_aware.outcome = "analysed"
    /\ k_aware.analysis.error = "none"
    /\ k_aware.analysis.insights # <<>>
ImageSucceeded ==
    /\ k_image.outcome = "analysed"
    /\ k_image.analysis.error = "none"
    /\ \/ k_image.analysis.insights # <<>> /\ k_image.analysis.insights[1] # "missing"
       \/ k_image.analysis.summary_bullets # <<>>

\* C26: the data_quality of the returned profile is "good" exactly when the
\* site-profile stage succeeded, "partial" exactly when it did not but the
\* market-awareness or the consumer-image stage succeeded, "minimal" exactly
\* when none did; a later stage never lowers the tag.
C26_QualityTag ==
    k_pc = "returned" =>
       /\ k_result.data_quality = "good" <=> SiteSucceeded
       /\ k_result.data_quality = "partial" <=>
             (~SiteSucceeded /\ (AwarenessSucceeded \/ ImageSucceeded))
       /\ k_result.data_quality = "minimal" <=>
             (~SiteSucceeded /\ ~AwarenessSucceeded /\ ~ImageSucceeded)

\* C27: market_awareness and consumer_image leave their sentinel, and
\* data_quality is raised, only when the corresponding analysis succeeded; an
\* analysis that ended in an error or in InsufficientData overwrites nothing.
C27_OverwriteOnlyOnSuccess ==
    [][/\ k_pc = "awareness" =>
             (k_profile' # k_profile => AwarenessSucceeded)
       /\ k_pc = "image" =>
             (k_profile' # k_profile => ImageSucceeded)]_vars

(***************************************************************************)
(* get_llm_response called on its own, in both modes and for every         *)
(* max_retries and retry_delay                                             *)
(***************************************************************************)
MaxRetries == 3
MaxDelay == 2

LlmInit ==
    /\ l_caller = "direct"
    /\ l_use \in BOOLEAN
    /\ l_json \in BOOLEAN
    /\ l_max \in 0..MaxRetries
    /\ l_delay \in 1..MaxDelay
    /\ l_script \in (IF l_use THEN [1..l_max -> Outcomes] ELSE {<<>>})
    /\ l_attempt = 0 /\ l_calls = 0 /\ l_sleeps = <<>>
    /\ l_pc = "llm_start" /\ l_resp = NoValue /\ l_verdict = NoValue
    \* run_research_v3 is not running
    /\ seed_url = "" /\ keywords = <<>> /\ competitor_list = <<>> /\ pc = "idle"
    /\ report = InitialReport /\ brand_hint = Unbound /\ found = "not_called"
    /\ names = <<>> /\ acc = <<>> /\ events = <<>> /\ stagelog = <<>>
    /\ caught = {} /\ written = <<>> /\ returned = NoValue
    \* provider_collect is not running
    /\ p_pref = "ddg" /\ p_qs = <<>> /\ p_thr = 0 /\ p_env = {} /\ p_mode = "none"
    /\ p_pc = "idle" /\ p_i = 1 /\ p_items = <<>> /\ p_seen = {}
    /\ p_primary = <<>> /\ p_events = <<>> /\ p_calls = <<>> /\ p_result = NoValue
    \* crawl_site is not running
    /\ c_seed = <<>> /\ c_max = 0 /\ c_base = <<>> /\ c_queue = <<>> /\ c_seen = {}
    /\ c_pages = <<>> /\ c_events = <<>> /\ c_fetched = <<>> /\ c_pc = "idle"
    /\ c_result = NoValue
    \* discover_seed_url is not running
    /\ d_metas = <<>> /\ d_sorted = <<>> /\ d_k = 1 /\ d_fetched = <<>>
    /\ d_checked = <<>> /\ d_events = <<>> /\ d_pc = "idle" /\ d_result = NoValue
    \* fetch_evidence and summarize_and_extract_insights are not running
    /\ e_use = FALSE /\ e_web = <<>> /\ e_docs = <<>> /\ e_llm = 0 /\ e_pc = "idle"
    /\ e_result = NoValue
    \* create_competitor_profile is not running
    /\ k_site = NoValue /\ k_aware = NoValue /\ k_image = NoValue
    /\ k_profile = NoValue /\ k_events = <<>> /\ k_pc = "idle" /\ k_result = NoValue
    \* analyze_price_range is not running
    /\ a_mode = "none" /\ a_web = <<>> /\ a_pages = <<>> /\ a_pc = "idle"
    /\ a_result = NoValue

LlmNext == GL_Begin \/ GL_Attempt \/ GL_GiveUp

SpecLlm == LlmInit /\ [][LlmNext]_vars

\* the call that was made last failed: the model raised or answered nothing,
\* or (JSON mode) its answer could not be parsed
FailedCall(o, json) == o \in RaisingOutcomes \/ (json /\ o \in UnparsedOutcomes)
ErrorShape(resp, json) ==
    IF json THEN resp.kind = "error" /\ resp.error ELSE resp.kind = "error_text"

\* C31: get_llm_response fails closed: whatever the failures, it makes at
\* most max_retries calls and, when its last call failed (or none could be
\* made), it returns the error shape of its mode instead of raising.
C31_FailsClosed ==
    /\ l_calls <= l_max
    /\ l_pc \in {"llm_start", "llm_loop", "llm_failed", "llm_returned"}
    /\ (l_pc = "llm_returned" /\ (l_calls = 0 \/ FailedCall(l_script[l_calls], l_json))) =>
          ErrorShape(l_resp, l_json)

\* text mode, three transient failures in a row: the error string
C31_Witness ==
    /\ l_pc = "llm_returned"
    /\ l_use /\ ~l_json
    /\ l_max = 3 /\ l_calls = 3
    /\ \A k \in 1..3 : l_script[k] = "transient"
    /\ l_resp.kind = "error_text"

\* C32: when get_llm_response in JSON mode ends because the answer could not
\* be parsed as JSON, the returned error object carries the raw response
\* text, on whichever attempt that happened.
C32_ParseFailureCarriesRaw ==
    (/\ l_pc = "llm_returned"
     /\ l_use /\ l_json
     /\ l_calls >= 1
     /\ l_script[l_calls] \in UnparsedOutcomes) => l_resp.raw

\* the failure message names one of the transient conditions of the list
NamesTransient(o) == o \in {"transient", "bad_json_5xx"}

Added == SubSeq(c_queue', Len(c_queue), Len(c_queue'))

\* C36: from each fetched page crawl_site adds at most 10 URLs to the
\* frontier, all of them of the seed's origin and not yet visited (no link
\* left out has a higher score than one that was added: stated on the URLs
\* that were added, which is where the property fails).
C36_BoundedSameOriginFanOut ==
    [][(c_pc = "loop" /\ Len(c_pages') > Len(c_pages)) =>
          /\ c_queue' = Tail(c_queue) \o Added
          /\ Len(Added) <= 10
          /\ \A k \in 1..Len(Added) :
                /\ Origin(Added[k]) = Origin(c_seed)
                /\ Added[k] \notin c_seen']_vars

\* C37: crawl_site is breadth-first: the first URL fetched is the seed
\* without its trailing slash, the URL fetched is always the oldest entry of
\* the queue, and new links only join the queue behind the entries that are
\* already waiting.
C37_BreadthFirst ==
    [][/\ c_fetched' # c_fetched =>
             /\ c_fetched' = Append(c_fetched, Head(c_queue))
             /\ LET f == c_fetched'[1] IN
                   /\ f[Len(f)] # Slash
                   /\ c_seed = f \/ c_seed = Append(f, Slash)
       /\ (c_pc = "loop" /\ c_queue' # c_queue) => IsPrefix(Tail(c_queue), c_queue')]_vars

\* the seed page and then its two links were fetched, in queue order
C37_Witness ==
    /\ Len(c_fetched) = 3
    /\ c_fetched[1] = SiteRoot
    /\ Len(c_pages) >= 2

(***************************************************************************)
(* analyze_price_range (src/main_agent.py) and the pages crawl_site        *)
(* builds for it (src/modules/crawler.py)                                  *)
(***************************************************************************)
MaxPrices == 3

\* line 134: the plausible band, both ends excluded
PriceFloor == 10000
PriceCeiling == 10000000

\* prices around both ends of the band
PriceValues == {10000, 10001, 15000, 89000, 9999999, 10000000, 12000000}

\* the price mentions of two web pages
PriceSplits ==
    UNION {{<<SubSeq(q, 1, k), SubSeq(q, k + 1, Len(q))>> : k \in 0..Len(q)} :
              q \in SeqUpTo(PriceValues, MaxPrices)}

\* a page that carries a "prices" list
GivenPage(k, prices) == [url |-> k, prices |-> prices]
\* crawler.py line 22: {"url": u, "text": _clean(text), "html": html}; the
\* price mentions of the page are part of its text and of its html
CrawledPage(k, mentions) == [url |-> k, text |-> mentions, html |-> mentions]

\* page.get("prices", [])
PricesOf(page) == IF "prices" \in DOMAIN page THEN page.prices ELSE <<>>

\* line 132
RECURSIVE AllPrices(_)
AllPrices(pages) ==
    IF pages = <<>> THEN <<>> ELSE PricesOf(Head(pages)) \o AllPrices(Tail(pages))

InBand_Inclusive(p) == PriceFloor <= p /\ p <= PriceCeiling
\* line 134
InBand(p) == PriceFloor < p /\ p < PriceCeiling

MinOf(S) == CHOOSE x \in S : \A y \in S : x <= y
MaxOf(S) == CHOOSE x \in S : \A y \in S : x >= y

\* lines 133, 135 and 136: the sentinel, and the two numbers the returned
\* text shows
NoInformation == [kind |-> "no_information", lo |-> 0, hi |-> 0]
PriceRange(lo, hi) == [kind |-> "range", lo |-> lo, hi |-> hi]

\* lines 131-136
AnalyzePriceRange(pages) ==
    LET all == AllPrices(pages)
        meaningful == {all[k] : k \in {j \in 1..Len(all) : InBand(all[j])}}
    IN  IF all = <<>> THEN NoInformation
        ELSE IF meaningful = {} THEN NoInformation
        ELSE PriceRange(MinOf(meaningful), MaxOf(meaningful))

PriceInit ==
    /\ a_mode \in {"direct", "crawled"}
    /\ a_web \in PriceSplits
    /\ a_pages = IF a_mode = "direct"
                 THEN [k \in 1..Len(a_web) |-> GivenPage(k, a_web[k])]
                 ELSE <<>>
    /\ a_pc = IF a_mode = "direct" THEN "analyze" ELSE "crawl"
    /\ a_result = NoValue
    \* run_research_v3 is not running
    /\ seed_url = "" /\ keywords = <<>> /\ competitor_list = <<>> /\ pc = "idle"
    /\ report = InitialReport /\ brand_hint = Unbound /\ found = "not_called"
    /\ names = <<>> /\ acc = <<>> /\ events = <<>> /\ stagelog = <<>>
    /\ caught = {} /\ written = <<>> /\ returned = NoValue
    \* provider_collect is not running
    /\ p_pref = "ddg" /\ p_qs = <<>> /\ p_thr = 0 /\ p_env = {} /\ p_mode = "none"
    /\ p_pc = "idle" /\ p_i = 1 /\ p_items = <<>> /\ p_seen = {}
    /\ p_primary = <<>> /\ p_events = <<>> /\ p_calls = <<>> /\ p_result = NoValue
    \* crawl_site is not running
    /\ c_seed = <<>> /\ c_max = 0 /\ c_base = <<>> /\ c_queue = <<>> /\ c_seen = {}
    /\ c_pages = <<>> /\ c_events = <<>> /\ c_fetched = <<>> /\ c_pc = "idle"
    /\ c_result = NoValue
    \* discover_seed_url is not running
    /\ d_metas = <<>> /\ d_sorted = <<>> /\ d_k = 1 /\ d_fetched = <<>>
    /\ d_checked = <<>> /\ d_events = <<>> /\ d_pc = "idle" /\ d_result = NoValue
    \* get_llm_response is not running
    /\ l_caller = "none" /\ l_use = FALSE /\ l_json = TRUE /\ l_max = 0
    /\ l_delay = 0
    /\ l_script = <<>> /\ l_attempt = 0 /\ l_calls = 0 /\ l_sleeps = <<>>
    /\ l_pc = "idle" /\ l_resp = NoValue /\ l_verdict = NoValue
    \* fetch_evidence and summarize_and_extract_insights are not running
    /\ e_use = FALSE /\ e_web = <<>> /\ e_docs = <<>> /\ e_llm = 0 /\ e_pc = "idle"
    /\ e_result = NoValue
    \* create_competitor_profile is not running
    /\ k_site = NoValue /\ k_aware = NoValue /\ k_image = NoValue
    /\ k_profile = NoValue /\ k_events = <<>> /\ k_pc = "idle" /\ k_result = NoValue

\* main_agent.py line 342 (and 271): pages = crawl_site(...)
AP_Crawl ==
    /\ a_pc = "crawl"
    /\ a_pages' = [k \in 1..Len(a_web) |-> CrawledPage(k, a_web[k])]
    /\ a_pc' = "analyze"
    /\ UNCHANGED <<a_mode, a_web, a_result>>
    /\ UNCHANGED outsidePrice

\* main_agent.py line 344 (and 275): analyze_price_range(pages)
AP_Analyze ==
    /\ a_pc = "analyze"
    /\ a_result' = AnalyzePriceRange(a_pages)
    /\ a_pc' = "done"
    /\ UNCHANGED <<a_mode, a_web, a_pages>>
    /\ UNCHANGED outsidePrice

PriceNext == AP_Crawl \/ AP_Analyze

SpecPrice == PriceInit /\ [][PriceNext]_vars

\* the price mentions of the web pages, and those strictly inside the band
Mentions == UNION {Range(a_web[k]) : k \in 1..Len(a_web)}
Plausible == {p \in Mentions : 10000 < p /\ p < 10000000}

\* C34: analyze_price_range reports the minimum and the maximum of exactly
\* the page prices p with 10000 < p < 10000000, and the sentinel when no
\* price lies in that band; for 15000, 12000000, 89000 the bounds are 15000
\* and 89000.
C34_BandMinMax ==
    (a_pc = "done" /\ a_mode = "direct") =>
       /\ Plausible = {} => a_result.kind = "no_information"
       /\ Plausible # {} =>
             /\ a_result.kind = "range"
             /\ a_result.lo \in Plausible /\ a_result.hi \in Plausible
             /\ \A p \in Plausible : a_result.lo <= p /\ p <= a_result.hi
       /\ Mentions = {15000, 12000000, 89000} =>
             a_result.lo = 15000 /\ a_result.hi = 89000

\* the prices 15000, 12000000 and 89000 on two pages gave 15000 to 89000
C34_Witness ==
    /\ a_pc = "done" /\ a_mode = "direct"
    /\ a_web = <<<<15000, 12000000>>, <<89000>>>>
    /\ a_result = [kind |-> "range", lo |-> 15000, hi |-> 89000]

\* C35: the estimated price range is computed from the price mentions on the
\* pages crawl_site returned: when those pages hold prices inside the band,
\* the result is the range of those prices and not the sentinel.
C35_RangeFromCrawledPages ==
    (a_pc = "done" /\ a_mode = "crawled" /\ Plausible # {}) =>
       /\ a_result.kind = "range"
       /\ \A p \in Plausible : a_result.lo <= p /\ p <= a_result.hi

\* C38 (as stated): once the crawl+profile stage has stored the synthesized
\* profile in report.brand_profile, no later step of the same stage (shopping
\* enrichment, ontology derivation) changes that field.
C38_StoredProfileKept ==
    [][(pc \in {"enrich", "ontology"}) =>
          report'["brand_profile"] = report["brand_profile"]]_vars

\* C38 (amended): a failure of the shopping enrichment leaves the stored
\* profile unchanged, but a failure of the ontology step is caught by the
\* handler of the stage (lines 357-358), which replaces the stored profile by
\* the error object and changes no other field; without such a failure the
\* profile is unchanged.
C38_OntologyFailureReplacesProfile ==
    [][(pc \in {"enrich", "ontology"}) =>
          IF "crawl+profile" \in caught'
          THEN /\ pc = "ontology"
               /\ report'["brand_profile"] = ProfileStageError
               /\ DOMAIN report' = DOMAIN report
               /\ \A f \in DOMAIN report \ {"brand_profile"} : report'[f] = report[f]
          ELSE report'["brand_profile"] = report["brand_profile"]]_vars

\* the enrichment ran after a profile was stored, then the ontology step
\* failed and the report holds the error object
C38_Witness ==
    /\ "shopping_enrichment" \in Range(stagelog)
    /\ "crawl+profile" \in caught
    /\ report["brand_profile"] = ProfileStageError

\* C39: every document fetch_evidence returns without an error has content
\* of at least 150 characters, and a document's content is empty exactly
\* when its error field is set.
C39_AcceptedContentAtLeast150 ==
    \A k \in 1..Len(e_docs) :
       /\ e_docs[k].error = "none" => e_docs[k].content >= MinEvidenceLength
       /\ e_docs[k].content = 0 <=> e_docs[k].error # "none"

\* C40: with preferred provider "tavily", provider_collect queries Tavily
\* first exactly when the credential tavily_collect reads (TAVILY_API_KEY) is
\* configured: the two credential tests agree.
C40_CredentialTestsAgree ==
    (p_pref = "tavily" /\ p_mode # "none") =>
       /\ UsesTavily(p_pref, p_env) <=> "TAVILY_API_KEY" \in p_env
       /\ p_mode \in {"tavily", "ddg_fallback"} <=> "TAVILY_API_KEY" \in p_env

====
